---------------------------- MODULE Spec2Model ----------------------------
(***************************************************************************)
(* Verification model of n-bits-go: the reduced floating-point codec       *)
(* (floatx), the population sets (CountSet, BitSet) and the per-tensor     *)
(* analyzer (AnalyzeTensor) and the analysis driver (cmdAnalyze).          *)
(*                                                                         *)
(* Conventions.                                                            *)
(*  - A Go slice is a TLA+ sequence; Go index i is sequence index i+1.     *)
(*  - A uint64 word is the set of its one-bit positions (0..63): x |= 1<<k *)
(*    is union with {k}, bits.OnesCount64 is Cardinality.                  *)
(*  - A float32 is carried by the three fields of its bit pattern          *)
(*    [s: bit 31, e: bits 23..30, m: bits 0..22]; the 32-bit pattern is    *)
(*    s*2^31 + e*2^23 + m.                                                 *)
(*  - A Go run-time panic (index out of range, negative shift amount) is   *)
(*    the value Panic of the operator and sets the variable aborted.       *)
(***************************************************************************)
EXTENDS Integers, Sequences, FiniteSets, TLC

VARIABLES
    codec,      \* floatx: [pc, fmt, raw, word, comp, f32], one decoding
    setobj,     \* n_bits: which population set the run exercises
    cs,         \* n_bits.CountSet: [Counts]
    bs,         \* n_bits.BitSet: [Len, Bits]
    js,         \* last output of BitSet.MarshalJSON, [ok, str]
    got,        \* BitSet filled by UnmarshalJSON(js), [ok, err, Len, Bits]
    hist,       \* history of the calls made on the sets since the last Resize
    aborted,    \* TRUE once an operation panicked
    tensor,     \* safetensors.Tensor given to AnalyzeTensor: [DType, Data]
    analysis,   \* what AnalyzeTensor returned: [pc, err, rec]
    run,        \* cmdAnalyze's environment: [numCPU, totalMemory, files, out]
    drv,        \* cmdAnalyze: its position, limits, channels, contexts, result
    workers,    \* the file workers of cmdAnalyze, each with its tensor goroutines
    output,     \* what was printed and written: [processing, lines, rollup, doc]
    archives,   \* per input file, the calls of Open that succeeded and of Close
    bitkind     \* a BitKind with its cache, and what its methods returned

vars == <<codec, setobj, cs, bs, js, got, hist, aborted, tensor, analysis,
          run, drv, workers, output, archives, bitkind>>

DriverVars == <<run, drv, workers, output, archives>>

Pow2(n) == 2 ^ n

Min(a, b) == IF a < b THEN a ELSE b

\* Go's integer division and remainder truncate toward zero.
GoDiv(a, b) == IF a >= 0 THEN a \div b ELSE -((-a) \div b)

GoMod(a, b) == a - b * GoDiv(a, b)

-----------------------------------------------------------------------------
(***************************************************************************)
(* floatx: field offsets                                                   *)
(***************************************************************************)
bf16SignOffset == 15

bf16ExponentOffset == 7

f16SignOffset == 15

f16ExponentOffset == 10

f8E4M3SignOffset == 7

f8E4M3ExponentOffset == 3

f8E5M2SignOffset == 7

f8E5M2ExponentOffset == 2

f32SignOffset == 31

f32ExponentOffset == 23

f32ExponentBias == 127

Formats == {"BF16", "F16", "F8E4M3", "F8E5M2"}

SignOffset(f) ==
    CASE f = "BF16" -> bf16SignOffset
      [] f = "F16" -> f16SignOffset
      [] f = "F8E4M3" -> f8E4M3SignOffset
      [] f = "F8E5M2" -> f8E5M2SignOffset

ExponentOffset(f) ==
    CASE f = "BF16" -> bf16ExponentOffset
      [] f = "F16" -> f16ExponentOffset
      [] f = "F8E4M3" -> f8E4M3ExponentOffset
      [] f = "F8E5M2" -> f8E5M2ExponentOffset

\* Number of exponent bits E and mantissa bits M of a format.
ExponentBits(f) == SignOffset(f) - ExponentOffset(f)

MantissaBits(f) == ExponentOffset(f)

\* binary.LittleEndian.Uint16(b): b[0] | b[1]<<8.
LittleEndianUint16(b) == b[1] + b[2] * 256

DecodeBF16(b) == LittleEndianUint16(b)

DecodeF16(b) == LittleEndianUint16(b)

(***************************************************************************)
(* Components(): sign := v >> signOffset;                                  *)
(* exponent := (v >> exponentOffset) & exponentMask;                       *)
(* mantissa := v & mantissaMask; each then narrowed to uint8 (uint16 for   *)
(* the F16 mantissa).                                                      *)
(***************************************************************************)
SplitFields(v, signOffset, exponentOffset, mantissaWidth) ==
    LET exponentMask == Pow2(signOffset - exponentOffset) - 1
        mantissaMask == Pow2(exponentOffset) - 1
        sign == v \div Pow2(signOffset)
        exponent == (v \div Pow2(exponentOffset)) % (exponentMask + 1)
        mantissa == v % (mantissaMask + 1)
    IN  [s |-> sign % 256, e |-> exponent % 256, m |-> mantissa % Pow2(mantissaWidth)]

BF16Components(b) == SplitFields(b, bf16SignOffset, bf16ExponentOffset, 8)

\* Mutant of F16Components: the mantissa is narrowed to uint8 as in the
\* other formats.
F16Components_NarrowMantissa(f) == SplitFields(f, f16SignOffset, f16ExponentOffset, 8)

F16Components(f) == SplitFields(f, f16SignOffset, f16ExponentOffset, 16)

F8E4M3Components(f) == SplitFields(f, f8E4M3SignOffset, f8E4M3ExponentOffset, 8)

F8E5M2Components(f) == SplitFields(f, f8E5M2SignOffset, f8E5M2ExponentOffset, 8)

(***************************************************************************)
(* math.Float32frombits(sign | (exponent << 23) | mantissa) on uint32.     *)
(* sign is 0 or 1<<31, given here as its bit; mantissa is below 1<<23 at   *)
(* every call; exponent is a uint32 that may have wrapped below zero, so   *)
(* it is given as the mathematical integer and reduced here: the low 9     *)
(* bits of (exponent mod 2^32) are all that survives the shift by 23, bit  *)
(* 8 landing on the sign bit.                                              *)
(***************************************************************************)
Float32frombits(signBit, exponent, mantissa) ==
    LET x == exponent % 512
        carry == x \div 256
    IN  [s |-> IF signBit = 1 \/ carry = 1 THEN 1 ELSE 0,
         e |-> x % 256,
         m |-> mantissa % Pow2(f32ExponentOffset)]

\* Mutant of NormalizeLoop: the loop shifts the mantissa and forgets exponent--.
RECURSIVE NormalizeLoop_NoDecrement(_, _, _, _)
NormalizeLoop_NoDecrement(mantissa, exponent, exponentMask, shifts) ==
    IF (mantissa \div Pow2(f32ExponentOffset)) % (exponentMask + 1) = 0
    THEN NormalizeLoop_NoDecrement(mantissa * 2, exponent, exponentMask, shifts + 1)
    ELSE [mantissa |-> mantissa, exponent |-> exponent, shifts |-> shifts]

\* for mantissa&(exponentMask<<f32ExponentOffset) == 0 { mantissa <<= 1; exponent-- }
RECURSIVE NormalizeLoop(_, _, _, _)
NormalizeLoop(mantissa, exponent, exponentMask, shifts) ==
    IF (mantissa \div Pow2(f32ExponentOffset)) % (exponentMask + 1) = 0
    THEN NormalizeLoop(mantissa * 2, exponent - 1, exponentMask, shifts + 1)
    ELSE [mantissa |-> mantissa, exponent |-> exponent, shifts |-> shifts]

(***************************************************************************)
(* The body shared by the four Float32() methods, which differ only in     *)
(* the offsets.  c is the result of Components().                          *)
(***************************************************************************)
RealignFloat32(c, signOffset, exponentOffset) ==
    LET exponentMask == Pow2(signOffset - exponentOffset) - 1
        exponentBias == Pow2(signOffset - exponentOffset) \div 2 - 1
        f32exponentMask == Pow2(f32SignOffset - f32ExponentOffset) - 1
        mantissa == c.m * Pow2(f32ExponentOffset - exponentOffset)
    IN  IF c.e = exponentMask
        THEN Float32frombits(c.s, f32exponentMask, mantissa)
        ELSE IF c.e = 0
        THEN IF mantissa = 0
             THEN Float32frombits(c.s, 0, 0)
             ELSE LET n == NormalizeLoop(mantissa, c.e + 1, exponentMask, 0)
                  IN  Float32frombits(c.s,
                          n.exponent + f32ExponentBias - exponentBias,
                          n.mantissa % Pow2(f32ExponentOffset))
        ELSE Float32frombits(c.s, c.e + f32ExponentBias - exponentBias, mantissa)

\* Mutant of BF16Float32: every NaN is returned as sign | 0x7FC00000.
BF16Float32_CanonicalNaN(b) ==
    LET c == BF16Components(b)
    IN  IF c.e = 255 /\ c.m # 0
        THEN Float32frombits(c.s, 255, Pow2(22))
        ELSE RealignFloat32(c, bf16SignOffset, bf16ExponentOffset)

BF16Float32(b) == RealignFloat32(BF16Components(b), bf16SignOffset, bf16ExponentOffset)

F16Float32(f) == RealignFloat32(F16Components(f), f16SignOffset, f16ExponentOffset)

F8E4M3Float32(f) == RealignFloat32(F8E4M3Components(f), f8E4M3SignOffset, f8E4M3ExponentOffset)

F8E5M2Float32(f) == RealignFloat32(F8E5M2Components(f), f8E5M2SignOffset, f8E5M2ExponentOffset)

\* Number of shifts the normalization loop of Float32() makes on word v.
NormalizeShifts(f, v) ==
    LET c == SplitFields(v, SignOffset(f), ExponentOffset(f), 16)
        mantissa == c.m * Pow2(f32ExponentOffset - ExponentOffset(f))
    IN  IF c.e = 0 /\ mantissa # 0
        THEN NormalizeLoop(mantissa, 1, Pow2(ExponentBits(f)) - 1, 0).shifts
        ELSE 0

\* math.IsNaN / math.IsInf on a float32 given by its fields.
IsNaN32(x) == x.e = 255 /\ x.m # 0

IsInf32(x) == x.e = 255 /\ x.m = 0


-----------------------------------------------------------------------------
(***************************************************************************)
(* Idle values of the parts a specification does not exercise.             *)
(***************************************************************************)
ZeroFields == [s |-> 0, e |-> 0, m |-> 0]

CodecIdle == [pc |-> "idle", fmt |-> "BF16", raw |-> <<>>, word |-> 0,
              comp |-> ZeroFields, f32 |-> ZeroFields]

Bytes == 0..255

\* The encoded scalars handed to the codec: two bytes for the 16-bit
\* formats (little-endian on the wire), one byte for the 8-bit formats.
CodecInputs ==
    [pc : {"ready"}, fmt : {"BF16", "F16"}, raw : Bytes \X Bytes,
     word : {0}, comp : {ZeroFields}, f32 : {ZeroFields}]
    \cup
    [pc : {"ready"}, fmt : {"F8E4M3", "F8E5M2"}, raw : {<<b>> : b \in Bytes},
     word : {0}, comp : {ZeroFields}, f32 : {ZeroFields}]

Decoded(c, w, f) == [codec EXCEPT !.pc = "done", !.word = w, !.comp = c, !.f32 = f]

-----------------------------------------------------------------------------
(***************************************************************************)
(* n_bits: CountSet.  Counts is a []uint8.                                 *)
(* An operation returns [panic, v]: panic is TRUE when Go's bounds check   *)
(* stops the program, and v is the receiver (or the value) after it.       *)
(***************************************************************************)
CountSaturation == 255

Zeros(l) == <<>> \o [i \in 1..l |-> 0]

\* copy(dst, src): the first min(len(dst), len(src)) elements of src
\* overwrite those of dst; the value is dst afterwards.
GoCopy(dst, src) ==
    <<>> \o [i \in 1..Len(dst) |-> IF i <= Len(src) THEN src[i] ELSE dst[i]]

\* Mutant of CountSetResize: copy(d, c.Counts), the old counters are kept.
CountSetResize_Backup(c, l) ==
    IF l < 0
    THEN [panic |-> TRUE, v |-> c]
    ELSE [panic |-> FALSE, v |-> [Counts |-> GoCopy(Zeros(l), c.Counts)]]

\* d := make([]uint8, l); copy(c.Counts, d); c.Counts = d.  make panics on a
\* negative length, before the receiver is touched.  The copy writes d's
\* zeros into the old array, which the receiver then drops.
CountSetResize(c, l) ==
    LET d == Zeros(l)
        old == GoCopy(c.Counts, d)
    IN  IF l < 0
        THEN [panic |-> TRUE, v |-> c]
        ELSE [panic |-> FALSE, v |-> [Counts |-> d]]

InRange(i, n) == 0 <= i /\ i < n

\* Mutant of CountSetAdd: no saturation test, the uint8 wraps to 0.
CountSetAdd_Wrap(c, i) ==
    IF ~InRange(i, Len(c.Counts))
    THEN [panic |-> TRUE, v |-> c]
    ELSE [panic |-> FALSE,
          v |-> [Counts |-> [c.Counts EXCEPT ![i + 1] = (@ + 1) % 256]]]

CountSetAdd(c, i) ==
    IF ~InRange(i, Len(c.Counts))
    THEN [panic |-> TRUE, v |-> c]
    ELSE IF c.Counts[i + 1] # CountSaturation
    THEN [panic |-> FALSE,
          v |-> [Counts |-> [c.Counts EXCEPT ![i + 1] = (@ + 1) % 256]]]
    ELSE [panic |-> FALSE, v |-> c]

CountSetGet(c, i) ==
    IF ~InRange(i, Len(c.Counts))
    THEN [panic |-> TRUE, v |-> 0]
    ELSE [panic |-> FALSE, v |-> c.Counts[i + 1]]

CountSetEffective(c) ==
    Cardinality({i \in 1..Len(c.Counts) : c.Counts[i] # 0})

(***************************************************************************)
(* n_bits: BitSet.  Bits is a []uint64; the slice is carried by its length *)
(* n and the set ones of the pairs <<w, k>> with bit k of word w set, so   *)
(* that the 2^23-bit set of an F32 mantissa stays small.                   *)
(***************************************************************************)
WordBits == 64

\* make([]uint64, n)
MakeWords(n) == [n |-> n, ones |-> {}]

\* Bits[w] as the set of its one-bit positions.
Word(bits, w) == {k \in 0..(WordBits - 1) : <<w, k>> \in bits.ones}

\* d := make([]uint64, (l+63)/64); copy(b.Bits, d); b.Len = l; b.Bits = d.
\* The division truncates toward zero: the word count is 0 for l in
\* -126..0 and negative from -127 down, where make panics before b.Len or
\* b.Bits is assigned.
BitSetResize(b, l) ==
    LET n == GoDiv(l + 63, WordBits)
        d == MakeWords(n)
    IN  IF n < 0
        THEN [panic |-> TRUE, v |-> b]
        ELSE [panic |-> FALSE, v |-> [Len |-> l, Bits |-> d]]

\* Mutant of BitSetSet: the shift count is taken modulo 32.
BitSetSet_Shift32(b, i) ==
    LET w == GoDiv(i, WordBits)
        k == GoMod(i, 32)
    IN  IF ~InRange(w, b.Bits.n) \/ k < 0
        THEN [panic |-> TRUE, v |-> b]
        ELSE [panic |-> FALSE,
              v |-> [b EXCEPT !.Bits.ones = @ \cup {<<w, k>>}]]

\* b.Bits[i/64] |= 1 << (i % 64): the index i/64 must be inside the slice and
\* the shift count i%64 must not be negative.
BitSetSet(b, i) ==
    LET w == GoDiv(i, WordBits)
        k == GoMod(i, WordBits)
    IN  IF ~InRange(w, b.Bits.n) \/ k < 0
        THEN [panic |-> TRUE, v |-> b]
        ELSE [panic |-> FALSE,
              v |-> [b EXCEPT !.Bits.ones = @ \cup {<<w, k>>}]]

\* b.Bits[i/64]&(1<<(i%64)) != 0
BitSetGet(b, i) ==
    LET w == GoDiv(i, WordBits)
        k == GoMod(i, WordBits)
    IN  IF ~InRange(w, b.Bits.n) \/ k < 0
        THEN [panic |-> TRUE, v |-> FALSE]
        ELSE [panic |-> FALSE, v |-> k \in Word(b.Bits, w)]

\* out := make([]bool, b.Len); for i := range b.Len { out[i] = b.Get(i) }
\* make panics on a negative length.
BitSetExpand(b) ==
    IF b.Len < 0 \/ \E i \in 0..(b.Len - 1) : BitSetGet(b, i).panic
    THEN [panic |-> TRUE, v |-> <<>>]
    ELSE [panic |-> FALSE, v |-> [i \in 1..b.Len |-> BitSetGet(b, i - 1).v]]

\* o += bits.OnesCount64(v) for every word v
BitSetEffective(b) == Cardinality(b.Bits.ones)

-----------------------------------------------------------------------------
(***************************************************************************)
(* Serialization of a BitSet.  A string is the sequence of the codes of    *)
(* its characters; a []byte is a sequence of 0..255.                       *)
(***************************************************************************)
\* Bit k (0 = least significant) of the non-negative integer x.
BitOf(x, k) == (x \div Pow2(k)) % 2

\* binary.LittleEndian.PutUint64(buf[:], v): byte j holds bits 8j..8j+7.
PutUint64(word) ==
    <<>> \o [j \in 1..8 |->
        LET RECURSIVE Sum(_)
            Sum(k) == IF k = 8 THEN 0
                      ELSE (IF 8 * (j - 1) + k \in word THEN Pow2(k) ELSE 0) + Sum(k + 1)
        IN  Sum(0)]

\* binary.LittleEndian.Uint64(b) for an 8-byte b.
Uint64(b) == {k \in 0..(WordBits - 1) : BitOf(b[(k \div 8) + 1], k % 8) = 1}

\* The standard base64 alphabet: A-Z, a-z, 0-9, +, /.
Base64Char(v) ==
    IF v < 26 THEN 65 + v
    ELSE IF v < 52 THEN 97 + (v - 26)
    ELSE IF v < 62 THEN 48 + (v - 52)
    ELSE IF v = 62 THEN 43 ELSE 47

Base64Chars == {Base64Char(v) : v \in 0..63}

\* The decoder's map from a character of the alphabet back to its value.
Base64Value(ch) ==
    IF ch >= 97 THEN ch - 97 + 26
    ELSE IF ch >= 65 THEN ch - 65
    ELSE IF ch >= 48 THEN ch - 48 + 52
    ELSE IF ch = 43 THEN 62 ELSE 63

\* base64.RawStdEncoding.EncodedLen(n) and .DecodedLen(n): no padding.
EncodedLen(n) == (n * 8 + 5) \div 6

DecodedLen(n) == (n * 6) \div 8

\* base64.RawStdEncoding.Encode: character j carries bits 6j..6j+5 of the
\* byte stream, most significant bit first, zero-filled at the end.
Base64Encode(d) ==
    LET byteAt(i) == IF i <= Len(d) THEN d[i] ELSE 0
    IN  <<>> \o [j \in 1..EncodedLen(Len(d)) |->
            LET off == 6 * (j - 1)
                q == off \div 8
                r == off % 8
                two == byteAt(q + 1) * 256 + byteAt(q + 2)
            IN  Base64Char((two \div Pow2(10 - r)) % 64)]

\* The characters the decoder skips: '\n' and '\r'.
Base64Skipped == {10, 13}

\* base64.RawStdEncoding.DecodeString: line feeds and carriage returns are
\* skipped; an error for any other character outside the alphabet or a
\* dangling single character; trailing bits are dropped.  The result d is
\* dbuf[:n] of a zeroed buffer of DecodedLen(len(s)) bytes, s counted with
\* the characters skipped: cap is the capacity of d.
Base64Decode(str) ==
    LET IsKept(ch) == ch \notin Base64Skipped
        in == SelectSeq(str, IsKept)
    IN  IF (\E j \in 1..Len(in) : in[j] \notin Base64Chars) \/ Len(in) % 4 = 1
        THEN [err |-> TRUE, cap |-> DecodedLen(Len(str)), d |-> <<>>]
        ELSE [err |-> FALSE,
              cap |-> DecodedLen(Len(str)),
              d |-> <<>> \o [i \in 1..DecodedLen(Len(in)) |->
                        LET off == 8 * (i - 1)
                            q == off \div 6
                            r == off % 6
                            two == Base64Value(in[q + 1]) * 64 + Base64Value(in[q + 2])
                        IN  (two \div Pow2(4 - r)) % 256]]

JSONQuote == 34

JSONBackslash == 92

\* json.Marshal(string(dst)) for a dst without characters that need escaping.
JSONMarshalString(str) == <<JSONQuote>> \o str \o <<JSONQuote>>

\* encoding/json: the white space around a value, and the text null.
JSONSpaces == {32, 9, 10, 13}

JSONNull == <<110, 117, 108, 108>>

\* data without the white space before and after its value.
JSONTrim(data) ==
    LET at == {j \in DOMAIN data : data[j] \notin JSONSpaces}
    IN  IF at = {} THEN <<>>
        ELSE SubSeq(data, CHOOSE j \in at : \A k \in at : j <= k,
                          CHOOSE j \in at : \A k \in at : k <= j)

\* The value of a hexadecimal digit, -1 for another character.
HexValue(ch) ==
    IF ch >= 48 /\ ch <= 57 THEN ch - 48
    ELSE IF ch >= 65 /\ ch <= 70 THEN ch - 55
    ELSE IF ch >= 97 /\ ch <= 102 THEN ch - 87
    ELSE -1

\* getu4: the code unit of the escape \uXXXX that starts at position j of
\* str, -1 when there is none.
GetU4(str, j) ==
    IF j + 5 > Len(str) \/ str[j] # JSONBackslash \/ str[j + 1] # 117
       \/ \E k \in 2..5 : HexValue(str[j + k]) < 0
    THEN -1
    ELSE HexValue(str[j + 2]) * 4096 + HexValue(str[j + 3]) * 256
            + HexValue(str[j + 4]) * 16 + HexValue(str[j + 5])

IsSurrogate(r) == 55296 <= r /\ r < 57344

\* utf8.EncodeRune: surrogates and runes past U+10FFFF become U+FFFD.
EncodeRune(r) ==
    IF r < 128 THEN <<r>>
    ELSE IF r < 2048 THEN <<192 + (r \div 64), 128 + (r % 64)>>
    ELSE IF IsSurrogate(r) \/ r > 1114111 THEN <<239, 191, 189>>
    ELSE IF r < 65536
    THEN <<224 + (r \div 4096), 128 + ((r \div 64) % 64), 128 + (r % 64)>>
    ELSE <<240 + (r \div 262144), 128 + ((r \div 4096) % 64), 128 + ((r \div 64) % 64),
           128 + (r % 64)>>

\* utf8.DecodeRune at position j of str: the size of the well-formed
\* encoding that starts there, 0 when there is none.
RuneSize(str, j) ==
    LET at(k) == IF j + k <= Len(str) THEN str[j + k] ELSE 0
        cont(k) == 128 <= at(k) /\ at(k) <= 191
        within(k, lo, hi) == lo <= at(k) /\ at(k) <= hi
        b == at(0)
    IN  IF b < 128 THEN 1
        ELSE IF 194 <= b /\ b <= 223 THEN IF cont(1) THEN 2 ELSE 0
        ELSE IF b = 224 THEN IF within(1, 160, 191) /\ cont(2) THEN 3 ELSE 0
        ELSE IF b = 237 THEN IF within(1, 128, 159) /\ cont(2) THEN 3 ELSE 0
        ELSE IF 225 <= b /\ b <= 239 THEN IF cont(1) /\ cont(2) THEN 3 ELSE 0
        ELSE IF b = 240 THEN IF within(1, 144, 191) /\ cont(2) /\ cont(3) THEN 4 ELSE 0
        ELSE IF 241 <= b /\ b <= 243 THEN IF cont(1) /\ cont(2) /\ cont(3) THEN 4 ELSE 0
        ELSE IF b = 244 THEN IF within(1, 128, 143) /\ cont(2) /\ cont(3) THEN 4 ELSE 0
        ELSE 0

\* The character an escape \c stands for, -1 when \c is no escape.
Unescaped(ch) ==
    CASE ch \in {JSONQuote, JSONBackslash, 47} -> ch
      [] ch = 98 -> 8
      [] ch = 102 -> 12
      [] ch = 110 -> 10
      [] ch = 114 -> 13
      [] ch = 116 -> 9
      [] OTHER -> -1

RECURSIVE Unquote(_, _)
\* The scanner and unquote on the characters between the quotes, from
\* position j on: the characters of the string, followed by -1 where the
\* text stops being a JSON string.  A quote, a control character or a bad
\* escape is a syntax error; escapes are replaced, a surrogate pair becomes
\* one rune, a lone surrogate and every byte that is not well-formed UTF-8
\* become U+FFFD.
Unquote(body, j) ==
    IF j > Len(body) THEN <<>>
    ELSE LET ch == body[j]
             fail == <<-1>>
         IN  IF ch = JSONQuote \/ ch < 32 THEN fail
             ELSE IF ch = JSONBackslash
             THEN IF j = Len(body) THEN fail
                  ELSE IF body[j + 1] = 117
                  THEN LET rr == GetU4(body, j)
                           rr1 == GetU4(body, j + 6)
                       IN  IF rr < 0 THEN fail
                           ELSE IF ~IsSurrogate(rr)
                           THEN EncodeRune(rr) \o Unquote(body, j + 6)
                           ELSE IF rr < 56320 /\ rr1 >= 56320 /\ rr1 < 57344
                           THEN EncodeRune((rr - 55296) * 1024 + (rr1 - 56320) + 65536)
                                    \o Unquote(body, j + 12)
                           ELSE EncodeRune(65533) \o Unquote(body, j + 6)
                  ELSE IF Unescaped(body[j + 1]) < 0 THEN fail
                  ELSE <<Unescaped(body[j + 1])>> \o Unquote(body, j + 2)
             ELSE IF RuneSize(body, j) = 0 THEN EncodeRune(65533) \o Unquote(body, j + 1)
             ELSE SubSeq(body, j, j + RuneSize(body, j) - 1)
                      \o Unquote(body, j + RuneSize(body, j))

\* json.Unmarshal(data, &s) for a string target s that holds "": null
\* leaves s as it is, a JSON string is unquoted into s, every other text
\* is an error (of syntax, or of type for the other JSON values).
JSONUnmarshalString(data) ==
    LET text == JSONTrim(data)
        quoted == Len(text) >= 2 /\ text[1] = JSONQuote /\ text[Len(text)] = JSONQuote
        str == IF quoted THEN Unquote(SubSeq(text, 2, Len(text) - 1), 1) ELSE <<-1>>
    IN  IF text = JSONNull THEN [err |-> FALSE, str |-> <<>>]
        ELSE IF str # <<>> /\ str[Len(str)] = -1 THEN [err |-> TRUE, str |-> <<>>]
        ELSE [err |-> FALSE, str |-> str]

RECURSIVE WordBytes(_, _)
\* The bytes appended for words w, w+1, ... of the slice.
WordBytes(bits, w) ==
    IF w >= bits.n THEN <<>>
    ELSE PutUint64(Word(bits, w)) \o WordBytes(bits, w + 1)

\* Mutant of BitSetMarshalJSON: the length byte is b.Len % 8, as when the
\* set was stored in bytes.
BitSetMarshalJSON_Mod8(b) ==
    LET dst == IF b.Len # 0
               THEN Base64Encode(<<GoMod(b.Len, 8) % 256>> \o WordBytes(b.Bits, 0))
               ELSE <<>>
    IN  JSONMarshalString(dst)

BitSetMarshalJSON(b) ==
    LET dst == IF b.Len # 0
               THEN Base64Encode(<<GoMod(b.Len, WordBits) % 256>> \o WordBytes(b.Bits, 0))
               ELSE <<>>
    IN  JSONMarshalString(dst)

\* The words read by the loop of UnmarshalJSON from the decoded bytes d:
\* word w is d[1+w*8 : 9+w*8], whose bytes past len(d) are the zeros of the
\* buffer d is a prefix of.
WordsOf(d, l) ==
    LET n == Len(d)
        word(w) == [j \in 1..8 |-> IF 1 + w * 8 + j <= n THEN d[1 + w * 8 + j] ELSE 0]
    IN  [n |-> l,
         ones |-> UNION {{<<w, k>> : k \in Uint64(word(w))} : w \in 0..(l - 1)}]

\* UnmarshalJSON on receiver b: [err, panic, v], v the receiver afterwards.
BitSetUnmarshalJSON(b, data) ==
    LET u == JSONUnmarshalString(data)
        dec == Base64Decode(u.str)
        d == dec.d
        last == IF d[1] = 0 THEN 64 ELSE d[1]
        l == (Len(d) + 6) \div 8
        \* The words d[1+i*8 : 9+i*8] that lie within the capacity of d.
        full == (dec.cap - 1) \div 8
    IN  IF u.err THEN [err |-> TRUE, panic |-> FALSE, v |-> b]
        ELSE IF Len(u.str) = 0
        THEN [err |-> FALSE, panic |-> FALSE, v |-> [Len |-> 0, Bits |-> MakeWords(0)]]
        ELSE IF dec.err \/ Len(d) = 0 THEN [err |-> TRUE, panic |-> FALSE, v |-> b]
        ELSE IF d[1] > 63 THEN [err |-> TRUE, panic |-> FALSE, v |-> b]
        ELSE IF l > full
        \* d[1+i*8 : 9+i*8] runs past the capacity of d: slice bounds panic,
        \* after b.Bits was replaced and its first words were read.
        THEN [err |-> FALSE, panic |-> TRUE,
              v |-> [b EXCEPT !.Bits = [n |-> l, ones |-> WordsOf(d, full).ones]]]
        ELSE [err |-> FALSE, panic |-> FALSE,
              v |-> [Len |-> (l - 1) * 64 + last, Bits |-> WordsOf(d, l)]]

\* CountSet.MarshalJSON: the base64 of the counters, "" for none.
CountSetMarshalJSON(c) ==
    LET dst == IF Len(c.Counts) # 0 THEN Base64Encode(c.Counts) ELSE <<>>
    IN  JSONMarshalString(dst)

\* CountSet.UnmarshalJSON on receiver c: [err, v], v the receiver afterwards.
CountSetUnmarshalJSON(c, data) ==
    LET u == JSONUnmarshalString(data)
        dec == Base64Decode(u.str)
    IN  IF u.err THEN [err |-> TRUE, v |-> c]
        ELSE IF Len(u.str) = 0 THEN [err |-> FALSE, v |-> [Counts |-> <<>>]]
        ELSE IF dec.err \/ Len(dec.d) = 0 THEN [err |-> TRUE, v |-> c]
        ELSE [err |-> FALSE, v |-> [Counts |-> dec.d]]

-----------------------------------------------------------------------------
(***************************************************************************)
(* The population sets as a state machine: one CountSet or one BitSet      *)
(* (population sets are never shared), driven by Resize, Add/Set, Get and  *)
(* the JSON round trip.  hist records what was asked since the last        *)
(* Resize:                                                                 *)
(*   n      the size given to the last Resize;                             *)
(*   adds   adds[k+1] = number of completed Add(k) calls;                  *)
(*   sets   the indices on which Set completed;                            *)
(*   oob    TRUE once a call with an index outside [0, n) completed; a run *)
(*          is followed up to the first such call;                         *)
(*   last   the last operation that changed the set;                       *)
(*   reused TRUE when the set was not empty as the last Resize was called. *)
(***************************************************************************)
MaxCount == 2

MaxAdds == 257

MaxCold == 1

MaxSets == 2

CountSetZero == [Counts |-> <<>>]

BitSetZero == [Len |-> 0, Bits |-> MakeWords(0)]

JsIdle == [ok |-> FALSE, str |-> <<>>]

GotIdle == [ok |-> FALSE, err |-> FALSE, panic |-> FALSE, v |-> BitSetZero]

HistInit == [n |-> 0, adds |-> <<>>, sets |-> {}, oob |-> FALSE,
             last |-> "none", reused |-> FALSE]

TensorIdle == [DType |-> "BF16", Data |-> <<>>]

AnalysisIdle == [pc |-> "idle", err |-> ""]

\* The driver before cmdAnalyze is called.
RunIdle == [numCPU |-> 0, totalMemory |-> <<0, 0, 0, 0>>, files |-> <<>>, out |-> FALSE,
            writable |-> TRUE, setup |-> "ok", cancels |-> TRUE]

DrvIdle == [pc |-> "idle", cpus |-> 0, p |-> 0, cpuLimit |-> 0,
            loadPipe |-> <<>>, closed |-> FALSE, fed |-> 0,
            ctx |-> FALSE, ctx2 |-> FALSE, err |-> "", all |-> <<>>, result |-> ""]

OutputIdle == [processing |-> <<>>, lines |-> <<>>, rollup |-> <<>>, doc |-> <<>>]

\* No BitKind under observation.
BitKindIdle == [obj |-> <<>>, first |-> <<>>, got |-> <<>>, last |-> "", json |-> <<>>, adds |-> 0]

DriverIdle ==
    /\ bitkind = BitKindIdle
    /\ run = RunIdle
    /\ drv = DrvIdle
    /\ workers = <<>>
    /\ output = OutputIdle
    /\ archives = <<>>

\* Lengths given to BitSet.Resize: 0, 1 and every length from 60 to 193,
\* which crosses the word boundaries 64, 128 and 192.
BitLens == {0, 1} \cup 60..193

\* The largest length whose word count (l+63)/64 is negative.
PanicLen == -127

\* Number of bits the words of a BitSet of length l hold.
Capacity(l) == WordBits * GoDiv(l + 63, WordBits)

\* Indices tried on a BitSet of length l: inside, on the word boundaries,
\* in the padding of the last word and outside the slice.
BitIndices(l) ==
    {-1, 0, 50, 64, 99, l - 1, l, Capacity(l) - 1, Capacity(l)}

CountIndices == -1..MaxCount

SetsInit ==
    /\ setobj \in {"CountSet", "BitSet"}
    /\ cs = CountSetZero
    /\ bs = BitSetZero
    /\ js = JsIdle
    /\ got = GotIdle
    /\ hist = HistInit
    /\ aborted = FALSE
    /\ codec = CodecIdle
    /\ tensor = TensorIdle
    /\ analysis = AnalysisIdle
    /\ DriverIdle

CountSetResizeStep ==
    /\ setobj = "CountSet" /\ ~aborted /\ ~hist.oob
    /\ \E l \in -1..MaxCount :
        LET r == CountSetResize(cs, l)
        IN  IF r.panic
            THEN /\ aborted' = TRUE
                 /\ UNCHANGED <<cs, hist>>
            ELSE /\ cs' = r.v
                 /\ aborted' = FALSE
                 /\ hist' = [HistInit EXCEPT !.n = l, !.adds = Zeros(l),
                                             !.last = "Resize",
                                             !.reused = CountSetEffective(cs) > 0]
    /\ UNCHANGED <<DriverVars, bitkind, codec, setobj, bs, js, got, tensor, analysis>>

\* The runs explored: at most MaxAdds calls of Add on one index, and at most
\* one index that received more than MaxCold of them.
AddExplored(i) ==
    InRange(i, hist.n) =>
        /\ hist.adds[i + 1] < MaxAdds
        /\ \/ hist.adds[i + 1] < MaxCold
           \/ \A j \in 1..hist.n : j # i + 1 => hist.adds[j] <= MaxCold

CountSetAddStep ==
    /\ setobj = "CountSet" /\ ~aborted /\ ~hist.oob
    /\ \E i \in CountIndices :
        /\ AddExplored(i)
        /\ LET r == CountSetAdd(cs, i)
           IN  IF r.panic
               THEN /\ aborted' = TRUE
                    /\ UNCHANGED <<cs, hist>>
               ELSE /\ cs' = r.v
                    /\ aborted' = FALSE
                    /\ hist' = IF InRange(i, hist.n)
                               THEN [hist EXCEPT !.adds[i + 1] = @ + 1, !.last = "Add"]
                               ELSE [hist EXCEPT !.oob = TRUE, !.last = "Add"]
    /\ UNCHANGED <<DriverVars, bitkind, codec, setobj, bs, js, got, tensor, analysis>>

CountSetGetStep ==
    /\ setobj = "CountSet" /\ ~aborted /\ ~hist.oob
    /\ \E i \in CountIndices :
        LET r == CountSetGet(cs, i)
        IN  IF r.panic
            THEN /\ aborted' = TRUE
                 /\ UNCHANGED hist
            ELSE /\ aborted' = FALSE
                 /\ hist' = IF InRange(i, hist.n) THEN hist
                            ELSE [hist EXCEPT !.oob = TRUE]
    /\ UNCHANGED <<DriverVars, bitkind, codec, setobj, cs, bs, js, got, tensor, analysis>>

BitSetResizeStep ==
    /\ setobj = "BitSet" /\ ~aborted /\ ~hist.oob
    /\ \E l \in BitLens \cup {PanicLen} :
        LET r == BitSetResize(bs, l)
        IN  IF r.panic
            THEN /\ aborted' = TRUE
                 /\ UNCHANGED <<bs, hist>>
            ELSE /\ bs' = r.v
                 /\ aborted' = FALSE
                 /\ hist' = [HistInit EXCEPT !.n = l, !.last = "Resize",
                                             !.reused = BitSetEffective(bs) > 0]
    /\ js' = JsIdle
    /\ got' = GotIdle
    /\ UNCHANGED <<DriverVars, bitkind, codec, setobj, cs, tensor, analysis>>

BitSetSetStep ==
    /\ setobj = "BitSet" /\ ~aborted /\ ~hist.oob
    /\ \E i \in BitIndices(bs.Len) :
        /\ i \in hist.sets \/ Cardinality(hist.sets) < MaxSets
        /\ LET r == BitSetSet(bs, i)
           IN  IF r.panic
               THEN /\ aborted' = TRUE
                    /\ UNCHANGED <<bs, hist>>
               ELSE /\ bs' = r.v
                    /\ aborted' = FALSE
                    /\ hist' = [hist EXCEPT !.sets = @ \cup {i}, !.last = "Set",
                                            !.oob = @ \/ ~InRange(i, hist.n)]
    /\ js' = JsIdle
    /\ got' = GotIdle
    /\ UNCHANGED <<DriverVars, bitkind, codec, setobj, cs, tensor, analysis>>

BitSetGetStep ==
    /\ setobj = "BitSet" /\ ~aborted /\ ~hist.oob
    /\ \E i \in BitIndices(bs.Len) :
        LET r == BitSetGet(bs, i)
        IN  IF r.panic
            THEN /\ aborted' = TRUE
                 /\ UNCHANGED hist
            ELSE /\ aborted' = FALSE
                 /\ hist' = IF InRange(i, hist.n) THEN hist
                            ELSE [hist EXCEPT !.oob = TRUE]
    /\ UNCHANGED <<DriverVars, bitkind, codec, setobj, cs, bs, js, got, tensor, analysis>>

\* d, err := b.MarshalJSON()
BitSetMarshalStep ==
    /\ setobj = "BitSet" /\ ~aborted /\ ~hist.oob /\ ~js.ok
    /\ js' = [ok |-> TRUE, str |-> BitSetMarshalJSON(bs)]
    /\ got' = GotIdle
    /\ UNCHANGED <<DriverVars, bitkind, codec, setobj, cs, bs, hist, aborted, tensor, analysis>>

\* var got BitSet; err := got.UnmarshalJSON(d)
BitSetUnmarshalStep ==
    /\ setobj = "BitSet" /\ ~aborted /\ ~hist.oob /\ js.ok /\ ~got.ok
    /\ LET r == BitSetUnmarshalJSON(BitSetZero, js.str)
       IN  /\ got' = [ok |-> TRUE, err |-> r.err, panic |-> r.panic, v |-> r.v]
           /\ aborted' = r.panic
    /\ UNCHANGED <<DriverVars, bitkind, codec, setobj, cs, bs, js, hist, tensor, analysis>>

SetsNext ==
    \/ CountSetResizeStep
    \/ CountSetAddStep
    \/ CountSetGetStep
    \/ BitSetResizeStep
    \/ BitSetSetStep
    \/ BitSetGetStep
    \/ BitSetMarshalStep
    \/ BitSetUnmarshalStep

SpecSets == SetsInit /\ [][SetsNext]_vars

-----------------------------------------------------------------------------
(***************************************************************************)
(* Claims about the population sets, checked under SpecSets.               *)
(***************************************************************************)
CountSetRun == setobj = "CountSet" /\ hist.last # "none"

BitSetRun == setobj = "BitSet" /\ hist.last # "none"

\* C5: after Resize(N) and any sequence of Add calls, Get(k) is the number
\* of Add(k) calls capped at 255 (no wrap to 0, no error), and Effective()
\* is the number of indices whose counter is non-zero, that is the number
\* of indices added at least once, so that further Add(k) calls on a
\* non-zero counter leave it unchanged.
C5_CountSetSaturates ==
    CountSetRun =>
        /\ \A k \in 0..(hist.n - 1) :
            /\ ~CountSetGet(cs, k).panic
            /\ CountSetGet(cs, k).v = Min(255, hist.adds[k + 1])
        /\ CountSetEffective(cs) = Cardinality({k \in 1..hist.n : hist.adds[k] > 0})
        /\ CountSetEffective(cs) = Cardinality({k \in 1..hist.n : cs.Counts[k] # 0})

\* C5 witness: an index that received more than 255 Add calls and reads 255.
C5_Witness ==
    /\ CountSetRun /\ hist.n >= 2
    /\ hist.adds[1] > 255
    /\ CountSetGet(cs, 0).v = 255
    /\ CountSetEffective(cs) = 1

\* C6: the round trip through MarshalJSON and UnmarshalJSON of a BitSet of
\* length N with bits set in [0, N) gives no error and a BitSet with the
\* same Len and the same Get(i) for every i in [0, N); the serialized form
\* is the base64 of one byte holding N mod 64 followed by the 64-bit words
\* in little-endian order, and the empty string when N = 0.
C6_BitSetRoundTrip ==
    (BitSetRun /\ hist.sets \subseteq 0..(hist.n - 1)) =>
        /\ js.ok =>
            LET u == JSONUnmarshalString(js.str)
                dec == Base64Decode(u.str)
            IN  /\ ~u.err
                /\ bs.Len = 0 => u.str = <<>>
                /\ bs.Len # 0 =>
                    /\ ~dec.err
                    /\ u.str = Base64Encode(dec.d)
                    /\ Len(dec.d) = 1 + 8 * ((bs.Len + 63) \div 64)
                    /\ dec.d[1] = bs.Len % 64
                    /\ \A w \in 0..((bs.Len - 1) \div 64) :
                        Uint64(SubSeq(dec.d, 2 + 8 * w, 9 + 8 * w))
                            = {k \in 0..63 : 64 * w + k \in hist.sets}
        /\ got.ok =>
            /\ ~got.err /\ ~got.panic
            /\ got.v.Len = bs.Len
            /\ \A i \in 0..(bs.Len - 1) : BitSetGet(got.v, i) = BitSetGet(bs, i)

\* C6 witness: a round trip of a set of length 64 (length byte 0 standing
\* for 64) with its first and last bits set.
C6_Witness ==
    /\ BitSetRun /\ got.ok /\ hist.n = 64 /\ hist.sets = {0, 63}
    /\ got.v.Len = 64 /\ BitSetGet(got.v, 63).v

\* C7: Resize(N) leaves a CountSet with N counters and a BitSet with Len = N
\* and ceil(N/64) words, every counter and every bit zero, whatever the set
\* held before.
C7_ResizeClears ==
    /\ (setobj = "CountSet" /\ hist.last = "Resize") =>
        /\ Len(cs.Counts) = hist.n
        /\ \A k \in 0..(hist.n - 1) : CountSetGet(cs, k).v = 0
        /\ CountSetEffective(cs) = 0
    /\ (setobj = "BitSet" /\ hist.last = "Resize") =>
        /\ bs.Len = hist.n
        /\ bs.Bits.n = (hist.n + 63) \div 64
        /\ \A i \in 0..(Capacity(hist.n) - 1) : ~BitSetGet(bs, i).v
        /\ BitSetEffective(bs) = 0

\* C7 witness: a set that held something is resized (to a size that keeps
\* cells the old content occupied).
C7_Witness ==
    /\ hist.last = "Resize" /\ hist.reused /\ hist.n >= 2
    /\ setobj = "BitSet" => hist.n = 100

\* C8: a call with an index outside [0, N) never completes, and so
\* Effective() <= N after any sequence of completed operations.
C8_OutOfRangeAborts ==
    /\ ~hist.oob
    /\ CountSetRun => CountSetEffective(cs) <= hist.n
    /\ BitSetRun => BitSetEffective(bs) <= hist.n

\* C9: after Resize(N) and Set calls with indices in [0, N), Get(i) is true
\* exactly for the indices set, Expand() has length N and agrees with Get,
\* and Effective() is the number of distinct indices set.
C9_BitSetTracksSets ==
    (BitSetRun /\ hist.sets \subseteq 0..(hist.n - 1)) =>
        /\ \A i \in 0..(hist.n - 1) :
            /\ ~BitSetGet(bs, i).panic
            /\ BitSetGet(bs, i).v <=> i \in hist.sets
        /\ LET x == BitSetExpand(bs)
               out == <<>> \o x.v
           IN  /\ ~x.panic
               /\ Len(out) = hist.n
               /\ \A i \in 0..(hist.n - 1) : out[i + 1] = BitSetGet(bs, i).v
        /\ BitSetEffective(bs) = Cardinality(hist.sets)

\* C9 witness: two distinct indices of different words were set.
C9_Witness ==
    /\ BitSetRun /\ hist.n = 100 /\ hist.sets = {50, 99}
    /\ BitSetGet(bs, 99).v /\ BitSetEffective(bs) = 2

-----------------------------------------------------------------------------
(***************************************************************************)
(* The codec as a state machine: an encoded scalar is drawn, then one step *)
(* decodes it (DecodeXX on the wire bytes, Components, Float32).           *)
(***************************************************************************)
CodecInit ==
    /\ codec \in CodecInputs
    /\ setobj = "none"
    /\ cs = CountSetZero
    /\ bs = BitSetZero
    /\ js = JsIdle
    /\ got = GotIdle
    /\ hist = HistInit
    /\ aborted = FALSE
    /\ tensor = TensorIdle
    /\ analysis = AnalysisIdle
    /\ DriverIdle

NotCodec == <<DriverVars, bitkind, setobj, cs, bs, js, got, hist, aborted, tensor, analysis>>

BF16Step ==
    /\ codec.pc = "ready" /\ codec.fmt = "BF16"
    /\ LET b == DecodeBF16(codec.raw)
       IN  codec' = Decoded(BF16Components(b), b, BF16Float32(b))
    /\ UNCHANGED NotCodec

F16Step ==
    /\ codec.pc = "ready" /\ codec.fmt = "F16"
    /\ LET f == DecodeF16(codec.raw)
       IN  codec' = Decoded(F16Components(f), f, F16Float32(f))
    /\ UNCHANGED NotCodec

F8E4M3Step ==
    /\ codec.pc = "ready" /\ codec.fmt = "F8E4M3"
    /\ LET f == codec.raw[1]
       IN  codec' = Decoded(F8E4M3Components(f), f, F8E4M3Float32(f))
    /\ UNCHANGED NotCodec

F8E5M2Step ==
    /\ codec.pc = "ready" /\ codec.fmt = "F8E5M2"
    /\ LET f == codec.raw[1]
       IN  codec' = Decoded(F8E5M2Components(f), f, F8E5M2Float32(f))
    /\ UNCHANGED NotCodec

CodecNext == BF16Step \/ F16Step \/ F8E4M3Step \/ F8E5M2Step

SpecCodec == CodecInit /\ [][CodecNext]_vars

(***************************************************************************)
(* Claims about the codec, checked under SpecCodec.                        *)
(***************************************************************************)
\* The word the wire bytes stand for: little-endian.
WireWord == IF Len(codec.raw) = 2 THEN codec.raw[1] + 256 * codec.raw[2] ELSE codec.raw[1]

\* The fields of the word, read off its binary expansion.
WireSign == WireWord \div Pow2(ExponentBits(codec.fmt) + MantissaBits(codec.fmt))

WireExponent == (WireWord \div Pow2(MantissaBits(codec.fmt))) % Pow2(ExponentBits(codec.fmt))

WireMantissa == WireWord % Pow2(MantissaBits(codec.fmt))

FormatBias == Pow2(ExponentBits(codec.fmt) - 1) - 1

AllOnes == Pow2(ExponentBits(codec.fmt)) - 1

\* The upper and lower halves of the 32-bit pattern of a float32.
Hi16(x) == x.s * 32768 + x.e * 128 + x.m \div 65536

Lo16(x) == x.m % 65536

\* C1: BF16(p).Float32() is the float32 whose bit pattern is p << 16, for
\* every 16-bit pattern p, the subnormals included.
C1_BF16IsUpperHalf ==
    (codec.pc = "done" /\ codec.fmt = "BF16") =>
        /\ Hi16(codec.f32) = WireWord
        /\ Lo16(codec.f32) = 0

\* C2: for F16, F8E4M3 and F8E5M2 and an exponent field that is not all
\* ones, Float32() is the value the pattern denotes: signed zero for e = 0,
\* m = 0; exponent field e+127-bias and mantissa m*2^(23-M) for e >= 1; and
\* for a subnormal the normalized float32 (1 + m'/2^23) * 2^(e'-127) equal
\* to m * 2^(1-bias-M), after at most M shifts of the normalization loop.
C2_FiniteValues ==
    (codec.pc = "done" /\ codec.fmt \in {"F16", "F8E4M3", "F8E5M2"}
        /\ WireExponent # AllOnes) =>
        LET x == codec.f32
            M == MantissaBits(codec.fmt)
            k == (1 - FormatBias - M) - (x.e - 150)
        IN  /\ x.s = WireSign
            /\ (WireExponent = 0 /\ WireMantissa = 0) => (x.e = 0 /\ x.m = 0)
            /\ WireExponent >= 1 =>
                (x.e = WireExponent + 127 - FormatBias /\ x.m = WireMantissa * Pow2(23 - M))
            /\ (WireExponent = 0 /\ WireMantissa # 0) =>
                /\ x.e \in 1..254
                /\ k \in 0..23
                /\ Pow2(23) + x.m = WireMantissa * Pow2(k)
                /\ NormalizeShifts(codec.fmt, codec.word) \in 1..M

\* C2 witness: the smallest F16 subnormal, 2^-24, decoded after 10 shifts.
C2_Witness ==
    /\ codec.pc = "done" /\ codec.fmt = "F16" /\ codec.word = 1
    /\ codec.f32 = [s |-> 0, e |-> 103, m |-> 0]
    /\ NormalizeShifts("F16", 1) = 10

\* C3: for an all-ones exponent field Float32() has the same sign, exponent
\* field 255 and mantissa m*2^(23-M): an infinity for m = 0, and otherwise a
\* NaN that keeps the source mantissa as its payload.
C3_InfAndNaN ==
    (codec.pc = "done" /\ WireExponent = AllOnes) =>
        LET x == codec.f32
            M == MantissaBits(codec.fmt)
        IN  /\ x.s = WireSign
            /\ x.e = 255
            /\ x.m = WireMantissa * Pow2(23 - M)
            /\ WireMantissa = 0 <=> IsInf32(x)
            /\ WireMantissa # 0 <=> IsNaN32(x)
            /\ x.m \div Pow2(23 - M) = WireMantissa

\* C3 witness: a BF16 NaN whose payload is not the quiet-NaN one.
C3_Witness ==
    /\ codec.pc = "done" /\ codec.fmt = "BF16" /\ codec.word = 65409
    /\ codec.f32 = [s |-> 1, e |-> 255, m |-> 65536]

\* C4: Components() gives s < 2, e < 2^E, m < 2^M with
\* s*2^(E+M) + e*2^M + m = p, and DecodeBF16/DecodeF16 read the two bytes
\* in little-endian order.
C4_ComponentsRecompose ==
    codec.pc = "done" =>
        LET c == codec.comp
            E == ExponentBits(codec.fmt)
            M == MantissaBits(codec.fmt)
        IN  /\ c.s \in 0..1
            /\ c.e \in 0..(Pow2(E) - 1)
            /\ c.m \in 0..(Pow2(M) - 1)
            /\ c.s * Pow2(E + M) + c.e * Pow2(M) + c.m = codec.word
            /\ codec.word = WireWord

\* C4 witness: F16 0xC2F7 sent as the bytes F7 C2.
C4_Witness ==
    /\ codec.pc = "done" /\ codec.fmt = "F16" /\ codec.raw = <<247, 194>>
    /\ codec.word = 49911
    /\ codec.comp = [s |-> 1, e |-> 16, m |-> 759]

-----------------------------------------------------------------------------
(***************************************************************************)
(* n_bits: the per-tensor analyzer.  A tensor is [DType, Data], Data the   *)
(* raw little-endian bytes.  This part carries the element count, the      *)
(* three population sets and the inf / nan tallies of each sweep.          *)
(***************************************************************************)
SupportedDTypes == {"F16", "BF16", "F32", "I32", "U32"}

DTypes == SupportedDTypes \cup {"F8E4M3", "F8E5M2", "I64"}

\* safetensors.DType.WordSize(): bytes per element.
WordSize(dt) ==
    CASE dt \in {"F8E4M3", "F8E5M2"} -> 1
      [] dt \in {"F16", "BF16"} -> 2
      [] dt \in {"F32", "I32", "U32"} -> 4
      [] dt = "I64" -> 8

\* unsafe.Slice((*T)(ptr), len(t.Data)/wordSize): element i (from 0) is the
\* bytes ws*i .. ws*i+ws-1; bytes after the last whole element are not seen.
Mapped(data, ws) ==
    [i \in 1..(Len(data) \div ws) |-> SubSeq(data, ws * (i - 1) + 1, ws * i)]

\* A float32 (or its uint32 pattern b) read from four little-endian bytes:
\* sign = b >> 31, exponent = (b >> 23) & 0xFF, mantissa = b & 0x7FFFFF.
Float32FromBytes(q) ==
    [s |-> q[4] \div 128,
     e |-> (q[4] % 128) * 2 + q[3] \div 128,
     m |-> (q[3] % 128) * 65536 + q[2] * 256 + q[1]]

\* Bit j (0..31) of the 32-bit word held in four little-endian bytes.
WordBit(q, j) == BitOf(q[(j \div 8) + 1], j % 8)

\* f16Lookup[i] and bf16Lookup[i], filled by init() from Float32().
f16Lookup(i) == F16Float32(i)

bf16Lookup(i) == BF16Float32(i)

\* v < -1e37 || v > 1e37 for a float32 that is neither NaN nor infinite:
\* the smallest float32 above 1e37 has exponent field 249 and mantissa
\* 7388611.
Beyond1e37(x) == x.e > 249 \/ (x.e = 249 /\ x.m >= 7388611)

\* if math.IsNaN(v) { nan++ } else if math.IsInf(v, 0) || v < -1e37 || v > 1e37 { inf++ }
Classify(x) ==
    IF IsNaN32(x) THEN "nan"
    ELSE IF IsInf32(x) \/ Beyond1e37(x) THEN "inf"
    ELSE "finite"

\* calcF16HistogramAndStats tests v < -1e37 && v > 1e37, which no v meets.
ClassifyF16(x) ==
    IF IsNaN32(x) THEN "nan"
    ELSE IF IsInf32(x) THEN "inf"
    ELSE "finite"

\* A float64 that holds a finite sum of float32 values, kept exactly as the
\* dyadic number n * 2^k (n odd, or n = 0 and k = 0).  The sums of this
\* model stay far below 53 significant bits, so float64 addition is exact.
RECURSIVE Dyadic(_, _)
Dyadic(n, k) ==
    IF n = 0 THEN [n |-> 0, k |-> 0]
    ELSE IF n % 2 = 0 THEN Dyadic(n \div 2, k + 1)
    ELSE [n |-> n, k |-> k]

\* float64(v) of a finite float32 v: (-1)^s * (2^23 + m) * 2^(e-150), or
\* (-1)^s * m * 2^-149 for a float32 subnormal.
Float64Of(v) ==
    LET mag == IF v.e = 0 THEN v.m ELSE Pow2(f32ExponentOffset) + v.m
        k == (IF v.e = 0 THEN 1 ELSE v.e) - f32ExponentBias - f32ExponentOffset
    IN  Dyadic(IF v.s = 1 THEN 0 - mag ELSE mag, k)

\* total += v
Float64Add(a, b) ==
    LET k == Min(a.k, b.k)
    IN  Dyadic(a.n * Pow2(a.k - k) + b.n * Pow2(b.k - k), k)

\* total / float64(numEl): the exact quotient num / den that the float64
\* division rounds, NaN for 0/0 and an infinity for x/0.
Float64Div(total, isZero, numEl) ==
    IF numEl # 0 THEN [kind |-> "num", num |-> total, den |-> numEl]
    ELSE IF isZero THEN [kind |-> "nan", num |-> total, den |-> 0]
    ELSE [kind |-> "inf", num |-> total, den |-> 0]

\* math.MaxFloat32 and -math.MaxFloat32, the values min and max start from.
MaxFloat32 == [s |-> 0, e |-> 254, m |-> Pow2(f32ExponentOffset) - 1]

NegMaxFloat32 == [s |-> 1, e |-> 254, m |-> Pow2(f32ExponentOffset) - 1]

\* The order of float64 on float32 values that are not NaN: a < b iff
\* Order32(a) < Order32(b); -0 and +0 are equal.
Order32(x) == (IF x.s = 1 THEN -1 ELSE 1) * (x.e * Pow2(f32ExponentOffset) + x.m)

\* One iteration of a float sweep: the three fields c of the element, its
\* value v and the class of v; sums tells whether the sweep has the
\* statement total += v (calcF32HistogramAndStats has not).
SweepFloat(acc, c, v, class, sums) ==
    [signs |-> CountSetAdd(acc.signs, c.s).v,
     exponents |-> CountSetAdd(acc.exponents, c.e).v,
     mantissas |-> BitSetSet(acc.mantissas, c.m).v,
     inf |-> acc.inf + (IF class = "inf" THEN 1 ELSE 0),
     nan |-> acc.nan + (IF class = "nan" THEN 1 ELSE 0),
     total |-> IF class = "finite" /\ sums THEN Float64Add(acc.total, Float64Of(v))
               ELSE acc.total,
     min |-> IF class = "finite" /\ Order32(v) < Order32(acc.min) THEN v ELSE acc.min,
     max |-> IF class = "finite" /\ Order32(v) > Order32(acc.max) THEN v ELSE acc.max]

\* The sets, tallies and stats a float sweep starts from.
FloatAcc(exponentBits, mantissaBits) ==
    [signs |-> CountSetResize(CountSetZero, Pow2(1)).v,
     exponents |-> CountSetResize(CountSetZero, Pow2(exponentBits)).v,
     mantissas |-> BitSetResize(BitSetZero, Pow2(mantissaBits)).v,
     inf |-> 0, nan |-> 0,
     total |-> Dyadic(0, 0), min |-> MaxFloat32, max |-> NegMaxFloat32]

\* The sweeps: calcXLoop(mapped, lo, hi, acc) runs the body of
\* "for _, x := range mapped" on mapped[lo], ..., mapped[hi] in this order,
\* starting from acc; a range of several elements is run as its first half
\* followed by its second half, the first half's result being computed
\* (the test "first = first") before the second half starts from it.
RECURSIVE calcF16Loop(_, _, _, _)
calcF16Loop(mapped, lo, hi, acc) ==
    IF lo > hi THEN acc
    ELSE IF lo = hi
    THEN LET bf == DecodeF16(mapped[lo])
             v == f16Lookup(bf)
         IN  SweepFloat(acc, F16Components(bf), v, ClassifyF16(v), TRUE)
    ELSE LET mid == (lo + hi) \div 2
             first == calcF16Loop(mapped, lo, mid, acc)
         IN  IF first = first
             THEN calcF16Loop(mapped, mid + 1, hi, first)
             ELSE first

calcF16HistogramAndStats(t) ==
    LET mapped == Mapped(t.Data, WordSize("F16"))
    IN  calcF16Loop(mapped, 1, Len(mapped),
                    FloatAcc(f16SignOffset - f16ExponentOffset, f16ExponentOffset))

RECURSIVE calcBF16Loop(_, _, _, _)
calcBF16Loop(mapped, lo, hi, acc) ==
    IF lo > hi THEN acc
    ELSE IF lo = hi
    THEN LET bf == DecodeBF16(mapped[lo])
             v == bf16Lookup(bf)
         IN  SweepFloat(acc, BF16Components(bf), v, Classify(v), TRUE)
    ELSE LET mid == (lo + hi) \div 2
             first == calcBF16Loop(mapped, lo, mid, acc)
         IN  IF first = first
             THEN calcBF16Loop(mapped, mid + 1, hi, first)
             ELSE first

calcBF16HistogramAndStats(t) ==
    LET mapped == Mapped(t.Data, WordSize("BF16"))
    IN  calcBF16Loop(mapped, 1, Len(mapped),
                     FloatAcc(bf16SignOffset - bf16ExponentOffset, bf16ExponentOffset))

RECURSIVE calcF32Loop(_, _, _, _)
calcF32Loop(mapped, lo, hi, acc) ==
    IF lo > hi THEN acc
    ELSE IF lo = hi
    THEN LET f == Float32FromBytes(mapped[lo])
         IN  SweepFloat(acc, f, f, Classify(f), FALSE)
    ELSE LET mid == (lo + hi) \div 2
             first == calcF32Loop(mapped, lo, mid, acc)
         IN  IF first = first
             THEN calcF32Loop(mapped, mid + 1, hi, first)
             ELSE first

calcF32HistogramAndStats(t) ==
    LET mapped == Mapped(t.Data, WordSize("F32"))
    IN  calcF32Loop(mapped, 1, Len(mapped),
                    FloatAcc(f32SignOffset - f32ExponentOffset, f32ExponentOffset))

\* Mutant of AddBits: only the low eight bit positions are examined.
AddBits_LowByte(mantissas, q, width) ==
    [Counts |-> <<>> \o [k \in 1..Len(mantissas.Counts) |->
        IF k <= 8 /\ WordBit(q, k - 1) = 1
        THEN CountSetAdd(mantissas, k - 1).v.Counts[k]
        ELSE mantissas.Counts[k]]]

\* for j := range width { if i&(1<<j) != 0 { mantissas.Add(j) } }
\* The Add calls of one element touch distinct counters (j < width, and the
\* set has at least width counters), so the loop is applied counter by
\* counter.
AddBits(mantissas, q, width) ==
    [Counts |-> <<>> \o [k \in 1..Len(mantissas.Counts) |->
        IF k <= width /\ WordBit(q, k - 1) = 1
        THEN CountSetAdd(mantissas, k - 1).v.Counts[k]
        ELSE mantissas.Counts[k]]]

\* A 32-bit or 64-bit integer of the integer sweeps, kept as hi * 65536 + lo
\* with 0 <= lo < 65536.  The totals of this model stay far below 2^63, so
\* the int64 and uint64 additions do not wrap.
Wide(hi, lo) == [hi |-> hi + lo \div 65536, lo |-> lo % 65536]

\* An int32 and a uint32 read from four little-endian bytes.
Int32Of(q) == Wide(q[3] + 256 * q[4] - (IF q[4] >= 128 THEN 65536 ELSE 0), q[1] + 256 * q[2])

Uint32Of(q) == Wide(q[3] + 256 * q[4], q[1] + 256 * q[2])

WideAdd(a, b) == Wide(a.hi + b.hi, a.lo + b.lo)

WideLess(a, b) == a.hi < b.hi \/ (a.hi = b.hi /\ a.lo < b.lo)

\* math.MaxInt32, math.MinInt32, math.MaxUint32.
MaxInt32 == Wide(32767, 65535)

MinInt32 == Wide(-32768, 0)

MaxUint32 == Wide(65535, 65535)

\* The statistics part of one iteration of an integer sweep.
SweepInt(acc, i) ==
    [total |-> WideAdd(acc.total, i),
     min |-> IF WideLess(i, acc.min) THEN i ELSE acc.min,
     max |-> IF WideLess(acc.max, i) THEN i ELSE acc.max]

RECURSIVE calcI32Loop(_, _, _, _)
calcI32Loop(mapped, lo, hi, acc) ==
    IF lo > hi THEN acc
    ELSE IF lo = hi
    THEN LET st == SweepInt(acc, Int32Of(mapped[lo]))
         IN  [signs |-> CountSetAdd(acc.signs, WordBit(mapped[lo], 31)).v,
              mantissas |-> AddBits(acc.mantissas, mapped[lo], 31),
              total |-> st.total, min |-> st.min, max |-> st.max]
    ELSE LET mid == (lo + hi) \div 2
             first == calcI32Loop(mapped, lo, mid, acc)
         IN  IF first = first
             THEN calcI32Loop(mapped, mid + 1, hi, first)
             ELSE first

calcI32HistogramAndStats(t) ==
    LET mapped == Mapped(t.Data, WordSize("I32"))
    IN  calcI32Loop(mapped, 1, Len(mapped),
                    [signs |-> CountSetResize(CountSetZero, Pow2(1)).v,
                     mantissas |-> CountSetResize(CountSetZero, 31).v,
                     total |-> Wide(0, 0), min |-> MaxInt32, max |-> MinInt32])

RECURSIVE calcU32Loop(_, _, _, _)
calcU32Loop(mapped, lo, hi, acc) ==
    IF lo > hi THEN acc
    ELSE IF lo = hi
    THEN LET st == SweepInt(acc, Uint32Of(mapped[lo]))
         IN  [mantissas |-> AddBits(acc.mantissas, mapped[lo], 32),
              total |-> st.total, min |-> st.min, max |-> st.max]
    ELSE LET mid == (lo + hi) \div 2
             first == calcU32Loop(mapped, lo, mid, acc)
         IN  IF first = first
             THEN calcU32Loop(mapped, mid + 1, hi, first)
             ELSE first

calcU32HistogramAndStats(t) ==
    LET mapped == Mapped(t.Data, WordSize("U32"))
    IN  calcU32Loop(mapped, 1, Len(mapped),
                    [mantissas |-> CountSetResize(CountSetZero, 32).v,
                     total |-> Wide(0, 0), min |-> MaxUint32, max |-> Wide(0, 0)])

BitKindCount(alloc, seen) == [kind |-> "BitKindCount", Allocation |-> alloc, ValuesSeen |-> seen]

BitKindBool(alloc, seen) == [kind |-> "BitKindBool", Allocation |-> alloc, ValuesSeen |-> seen]

BitMaskCount(alloc, seen) == [kind |-> "BitMaskCount", Allocation |-> alloc, ValuesSeen |-> seen]

\* The least c with 2^c >= n, for n >= 1: math.Ceil(math.Log2(float64(n))).
RECURSIVE CeilLog2From(_, _)
CeilLog2From(n, c) == IF Pow2(c) >= n THEN c ELSE CeilLog2From(n, c + 1)

CeilLog2(n) == CeilLog2From(n, 0)

\* int32(math.Ceil(math.Log2(float64(effective)))).  For effective = 0 the
\* logarithm is -Inf, which int32 cannot represent: the conversion gives
\* the most negative int32 on the builds of this program (amd64, arm64).
Int32CeilLog2(effective) ==
    IF effective = 0 THEN -2147483647 - 1 ELSE CeilLog2(effective)

\* The float64 values the bit counts take, each kept exactly as
\* whole + log2(odd) with odd an odd number, or odd = 0 for -Inf.
Float64OfInt(k) == [whole |-> k, odd |-> 1]

NegInf == [whole |-> 0, odd |-> 0]

\* math.Log2(float64(n)) for an int32 n >= 0: -Inf for 0, and exact on the
\* powers of two.
RECURSIVE MathLog2(_)
MathLog2(n) ==
    IF n = 0 THEN NegInf
    ELSE IF n % 2 = 0
    THEN LET half == MathLog2(n \div 2)
         IN  [whole |-> half.whole + 1, odd |-> half.odd]
    ELSE [whole |-> 0, odd |-> n]

\* a + b and a - b in int32, wrapping.
Int32Wrap(hi, lo) ==
    LET w == Wide(hi, lo)
    IN  (((w.hi + 32768) % 65536) - 32768) * 65536 + w.lo

Int32Add(a, b) == Int32Wrap((a \div 65536) + (b \div 65536), (a % 65536) + (b % 65536))

Int32Sub(a, b) ==
    Int32Wrap((a \div 65536) - (b \div 65536) - 1, (a % 65536) - (b % 65536) + 65536)

\* 1 << n in int32, for n >= 0.
Int32Shl1(n) ==
    IF n >= 32 THEN 0
    ELSE IF n = 31 THEN -2147483647 - 1
    ELSE Pow2(n)

\* ValuesSeen.Effective() of a BitKind.
SeenEffective(b) ==
    IF b.kind = "BitKindBool" THEN BitSetEffective(b.ValuesSeen)
    ELSE CountSetEffective(b.ValuesSeen)

\* cache() of BitKindCount, BitKindBool and BitMaskCount: the three derived
\* values.  actuallyUsed is the float64 math.Log2(float64(effective)) for
\* the first two kinds and the int32 number of bit positions for
\* BitMaskCount.
BitKindCache(b) ==
    LET seen == SeenEffective(b)
    IN  IF b.kind = "BitMaskCount"
        THEN [effective |-> Int32Shl1(seen),
              actuallyUsed |-> seen,
              wasted |-> IF b.Allocation # 0 THEN Int32Sub(b.Allocation, seen) ELSE 0]
        ELSE [effective |-> seen,
              actuallyUsed |-> MathLog2(seen),
              wasted |-> IF b.Allocation # 0
                         THEN Int32Sub(b.Allocation, Int32CeilLog2(seen))
                         ELSE 0]

GetAllocation(b) == b.Allocation

NumberDifferentValuesSeen(b) == BitKindCache(b).effective

\* return b.actuallyUsed, or float64(b.actuallyUsed) for BitMaskCount.
BitsActuallyUsed(b) ==
    IF b.kind = "BitMaskCount"
    THEN Float64OfInt(BitKindCache(b).actuallyUsed)
    ELSE BitKindCache(b).actuallyUsed

BitsWasted(b) == BitKindCache(b).wasted

\* Mutant of WastedBits: the sign's wasted bits are left out of the sum.
WastedBits_NoSign(a) ==
    Int32Add(BitsWasted(a.Exponent), BitsWasted(a.Mantissa))

\* cmdAnalyze: int64(a.Sign.BitsWasted() + a.Exponent.BitsWasted() +
\* a.Mantissa.BitsWasted()), the sum taken in int32.
WastedBits(a) ==
    Int32Add(Int32Add(BitsWasted(a.Sign), BitsWasted(a.Exponent)), BitsWasted(a.Mantissa))

\* Mutant of WastedBytes: the bits are not converted to bytes.
WastedBytes_Bits(a) == a.NumEl * WastedBits(a)

\* cmdAnalyze: a.NumEl * wasted / 8, the bytes wasted by one tensor.
WastedBytes(a) == GoDiv(a.NumEl * WastedBits(a), 8)

NoAnalysis == [DType |-> "", NumEl |-> 0,
               Avg |-> Float64Div(Dyadic(0, 0), TRUE, 1),
               Min |-> ZeroFields, Max |-> ZeroFields,
               Inf |-> 0, NaN |-> 0,
               Sign |-> BitKindCount(0, CountSetZero),
               Exponent |-> BitKindCount(0, CountSetZero),
               Mantissa |-> BitKindCount(0, CountSetZero)]

\* AnalyzeTensor(name, t): [err, rec]; err is "" for a nil error.
AnalyzeTensor(t) ==
    LET numEl == Len(t.Data) \div WordSize(t.DType)
        float(h, e, m) ==
            [err |-> "",
             rec |-> [DType |-> t.DType, NumEl |-> numEl,
                      Avg |-> Float64Div(h.total, h.total.n = 0, numEl),
                      Min |-> h.min, Max |-> h.max,
                      Inf |-> h.inf, NaN |-> h.nan,
                      Sign |-> BitKindCount(1, h.signs),
                      Exponent |-> BitKindCount(e, h.exponents),
                      Mantissa |-> BitKindBool(m, h.mantissas)]]
    IN  CASE t.DType = "F16" -> float(calcF16HistogramAndStats(t), 5, 10)
          [] t.DType = "BF16" -> float(calcBF16HistogramAndStats(t), 8, 7)
          [] t.DType = "F32" -> float(calcF32HistogramAndStats(t), 8, 23)
          [] t.DType = "I32" ->
                LET h == calcI32HistogramAndStats(t)
                IN  [err |-> "",
                     rec |-> [DType |-> t.DType, NumEl |-> numEl,
                              Avg |-> Float64Div(h.total, h.total = Wide(0, 0), numEl),
                              Min |-> h.min, Max |-> h.max,
                              Inf |-> 0, NaN |-> 0,
                              Sign |-> BitKindCount(1, h.signs),
                              Exponent |-> BitKindCount(0, CountSetZero),
                              Mantissa |-> BitMaskCount(31, h.mantissas)]]
          [] t.DType = "U32" ->
                LET h == calcU32HistogramAndStats(t)
                IN  [err |-> "",
                     rec |-> [DType |-> t.DType, NumEl |-> numEl,
                              Avg |-> Float64Div(h.total, h.total = Wide(0, 0), numEl),
                              Min |-> h.min, Max |-> h.max,
                              Inf |-> 0, NaN |-> 0,
                              Sign |-> BitKindCount(0, CountSetZero),
                              Exponent |-> BitKindCount(0, CountSetZero),
                              Mantissa |-> BitMaskCount(32, h.mantissas)]]
          [] OTHER -> [err |-> "TODO implement support for dtype", rec |-> NoAnalysis]

\* AnalyzedTensor.Len(): a.NumEl * int64(a.DType.WordSize())
AnalyzedTensorLen(a) == a.NumEl * WordSize(a.DType)

-----------------------------------------------------------------------------
(***************************************************************************)
(* The analyzer as a state machine: a tensor is drawn (a DType, up to      *)
(* MaxElems elements from a few telling values of that type, and up to     *)
(* one word less of trailing bytes), then AnalyzeTensor runs on it.        *)
(***************************************************************************)
MaxElems == 2

\* Little-endian bytes of a 16-bit word.
LE16(w) == <<w % 256, w \div 256>>

\* Elements drawn for each DType, as their wire bytes.
Elements(dt) ==
    CASE dt = "BF16" ->
            \* 0, 1, -1, +Inf, NaN, the largest finite value, the smallest subnormal
            {LE16(w) : w \in {0, 16256, 49024, 32640, 32704, 32639, 1}}
      [] dt = "F16" ->
            \* 0, 1, -1, +Inf, -Inf, NaN, the smallest subnormal
            {LE16(w) : w \in {0, 15360, 48128, 31744, 64512, 32256, 1}}
      [] dt = "F32" ->
            \* 0, 1, 3, -Inf, NaN, 2e37
            {<<0, 0, 0, 0>>, <<0, 0, 128, 63>>, <<0, 0, 64, 64>>,
             <<0, 0, 128, 255>>, <<0, 0, 192, 127>>, <<10, 188, 112, 125>>}
      [] dt = "I32" ->
            \* 0, 1, 2, 4, 8, -1
            {<<0, 0, 0, 0>>, <<1, 0, 0, 0>>, <<2, 0, 0, 0>>, <<4, 0, 0, 0>>,
             <<8, 0, 0, 0>>, <<255, 255, 255, 255>>}
      [] dt = "U32" ->
            {<<0, 0, 0, 0>>, <<1, 0, 0, 0>>, <<2, 0, 0, 0>>, <<255, 255, 255, 255>>}
      [] dt \in {"F8E4M3", "F8E5M2"} -> {<<0>>, <<56>>}
      [] dt = "I64" -> {<<1, 0, 0, 0, 0, 0, 0, 0>>}

RECURSIVE Flatten(_)
Flatten(elems) == IF elems = <<>> THEN <<>> ELSE Head(elems) \o Flatten(Tail(elems))

\* The element sequences of at most n elements of DType dt.
RECURSIVE ElementSeqs(_, _)
ElementSeqs(dt, n) ==
    IF n = 0 THEN {<<>>}
    ELSE LET shorter == ElementSeqs(dt, n - 1)
         IN  shorter \cup {Append(q, e) : q \in {x \in shorter : Len(x) = n - 1},
                                          e \in Elements(dt)}

\* The tensors of the two worked examples of the analysis: 1024 BF16
\* elements 0x0000, and the I32 elements 1, 2, 4, 8.
ZeroBF16Tensor == [DType |-> "BF16", Data |-> Zeros(WordSize("BF16") * 1024)]

PowersI32Tensor ==
    [DType |-> "I32",
     Data |-> Flatten(<<<<1, 0, 0, 0>>, <<2, 0, 0, 0>>, <<4, 0, 0, 0>>, <<8, 0, 0, 0>>>>)]

ScenarioTensors == {ZeroBF16Tensor, PowersI32Tensor}

AnalyzeInit ==
    /\ \/ \E dt \in DTypes :
            \E q \in ElementSeqs(dt, MaxElems) :
                \E extra \in 0..(WordSize(dt) - 1) :
                    tensor = [DType |-> dt, Data |-> Flatten(q) \o Zeros(extra)]
       \/ tensor \in ScenarioTensors
    /\ analysis = [pc |-> "ready", err |-> "", rec |-> NoAnalysis]
    /\ codec = CodecIdle
    /\ setobj = "none"
    /\ cs = CountSetZero
    /\ bs = BitSetZero
    /\ js = JsIdle
    /\ got = GotIdle
    /\ hist = HistInit
    /\ aborted = FALSE
    /\ DriverIdle

AnalyzeTensorStep ==
    /\ analysis.pc = "ready"
    /\ LET r == AnalyzeTensor(tensor)
       IN  analysis' = [pc |-> "done", err |-> r.err, rec |-> r.rec]
    /\ UNCHANGED <<DriverVars, bitkind, codec, setobj, cs, bs, js, got, hist, aborted, tensor>>

AnalyzeNext == AnalyzeTensorStep

SpecAnalyze == AnalyzeInit /\ [][AnalyzeNext]_vars

(***************************************************************************)
(* Claims about the analyzer, checked under SpecAnalyze.                   *)
(***************************************************************************)
\* C10: on a buffer whose length is not a multiple of the word size of its
\* DType, AnalyzeTensor fails and produces no TensorAnalysis; for every
\* TensorAnalysis it returns, byteLength = elementCount x wordSize equals
\* the length of the input buffer.
C10_MalformedRejected ==
    analysis.pc = "done" =>
        /\ Len(tensor.Data) % WordSize(tensor.DType) # 0 => analysis.err # ""
        /\ analysis.err = "" => AnalyzedTensorLen(analysis.rec) = Len(tensor.Data)

\* C11: AnalyzeTensor returns a TensorAnalysis, with the field allocations
\* of the type (sign/exponent/mantissa: F16 1/5/10, BF16 1/8/7, F32 1/8/23,
\* F8E4M3 1/4/3, F8E5M2 1/5/2, I32 1/0/31, U32 0/0/32), for each DType of
\* the closed set F16, BF16, F32, F8E4M3, F8E5M2, I32, U32, and an error
\* with no record exactly for the DTypes outside this set.
C11_SupportedSet ==
    analysis.pc = "done" =>
        LET alloc == [s |-> analysis.rec.Sign.Allocation,
                      e |-> analysis.rec.Exponent.Allocation,
                      m |-> analysis.rec.Mantissa.Allocation]
            dt == tensor.DType
        IN  /\ dt \in {"F16", "BF16", "F32", "F8E4M3", "F8E5M2", "I32", "U32"}
                <=> analysis.err = ""
            /\ analysis.err # "" => analysis.rec = NoAnalysis
            /\ analysis.err = "" =>
                alloc = CASE dt = "F16" -> [s |-> 1, e |-> 5, m |-> 10]
                          [] dt = "BF16" -> [s |-> 1, e |-> 8, m |-> 7]
                          [] dt = "F32" -> [s |-> 1, e |-> 8, m |-> 23]
                          [] dt = "F8E4M3" -> [s |-> 1, e |-> 4, m |-> 3]
                          [] dt = "F8E5M2" -> [s |-> 1, e |-> 5, m |-> 2]
                          [] dt = "I32" -> [s |-> 1, e |-> 0, m |-> 31]
                          [] dt = "U32" -> [s |-> 0, e |-> 0, m |-> 32]

\* The float32 values of the elements of a 16-bit float tensor, and the
\* class each is counted in.
ElementValues(t) ==
    LET mapped == Mapped(t.Data, WordSize(t.DType))
    IN  [i \in 1..Len(mapped) |->
            IF t.DType = "BF16" THEN BF16Float32(DecodeBF16(mapped[i]))
            ELSE F16Float32(DecodeF16(mapped[i]))]

ElementClass(t, v) == IF t.DType = "BF16" THEN Classify(v) ELSE ClassifyF16(v)

\* The sum of the elements vals[lo..hi] whose index is in the set idx.
RECURSIVE SumOver(_, _, _, _)
SumOver(vals, idx, lo, hi) ==
    IF lo > hi THEN Dyadic(0, 0)
    ELSE IF lo = hi
    THEN IF lo \in idx THEN Float64Of(vals[lo]) ELSE Dyadic(0, 0)
    ELSE LET mid == (lo + hi) \div 2
         IN  Float64Add(SumOver(vals, idx, lo, mid), SumOver(vals, idx, mid + 1, hi))

\* C12: for an F16 or BF16 tensor, avg is the sum of the finite elements
\* (those counted neither as nan nor as inf) divided by max(1, number of
\* finite elements); without any finite element, and so for a tensor of
\* zero elements, avg = 0 and nothing is divided by zero.
C12_AvgOverFinite ==
    (analysis.pc = "done" /\ analysis.err = "" /\ tensor.DType \in {"F16", "BF16"}) =>
        LET vals == ElementValues(tensor)
            finite == {i \in DOMAIN vals : ElementClass(tensor, vals[i]) = "finite"}
            count == IF finite = {} THEN 1 ELSE Cardinality(finite)
            sum == SumOver(vals, finite, 1, Len(tensor.Data) \div WordSize(tensor.DType))
            avg == analysis.rec.Avg
        IN  /\ avg.kind = "num"
            /\ Dyadic(avg.num.n * count, avg.num.k) = Dyadic(sum.n * avg.den, sum.k)
            /\ finite = {} => avg.num.n = 0

\* C13 as stated: analysing the BF16 tensor of 1024 elements 0x0000 gives
\* min = max = avg = 0, effective population 1 for sign, exponent and
\* mantissa, wasted bits sign = 0, exponent = 8, mantissa = 7, and
\* wastedBytes = 1024 x 15 / 8 = 1920.
C13_ZeroBF16_SignKept ==
    (analysis.pc = "done" /\ tensor = ZeroBF16Tensor) =>
        LET a == analysis.rec
        IN  /\ analysis.err = ""
            /\ a.Min = [s |-> 0, e |-> 0, m |-> 0] /\ a.Max = a.Min
            /\ a.Avg.kind = "num" /\ a.Avg.num.n = 0
            /\ NumberDifferentValuesSeen(a.Sign) = 1
            /\ NumberDifferentValuesSeen(a.Exponent) = 1
            /\ NumberDifferentValuesSeen(a.Mantissa) = 1
            /\ BitsWasted(a.Sign) = 0
            /\ BitsWasted(a.Exponent) = 8
            /\ BitsWasted(a.Mantissa) = 7
            /\ WastedBytes(a) = 1920

\* C13: analysing the BF16 tensor of 1024 elements 0x0000 gives
\* min = max = avg = 0, effective population 1 for sign, exponent and
\* mantissa, wasted bits sign = 1 (the one sign value seen needs no bit),
\* exponent = 8, mantissa = 7, and wastedBytes = 1024 x 16 / 8 = 2048.
C13_ZeroBF16 ==
    (analysis.pc = "done" /\ tensor = ZeroBF16Tensor) =>
        LET a == analysis.rec
        IN  /\ analysis.err = ""
            /\ a.NumEl = 1024
            /\ a.Min = [s |-> 0, e |-> 0, m |-> 0] /\ a.Max = a.Min
            /\ a.Avg.kind = "num" /\ a.Avg.num.n = 0
            /\ NumberDifferentValuesSeen(a.Sign) = 1
            /\ NumberDifferentValuesSeen(a.Exponent) = 1
            /\ NumberDifferentValuesSeen(a.Mantissa) = 1
            /\ BitsWasted(a.Sign) = 1
            /\ BitsWasted(a.Exponent) = 8
            /\ BitsWasted(a.Mantissa) = 7
            /\ WastedBytes(a) = 2048

C13_ZeroBF16_Witness ==
    /\ analysis.pc = "done"
    /\ tensor = ZeroBF16Tensor
    /\ analysis.rec.DType = "BF16"
    /\ analysis.rec.Sign.ValuesSeen.Counts[1] = CountSaturation

\* The elements of an I32 or U32 tensor as integers, and their sum.
IntegerValues(t) ==
    LET mapped == Mapped(t.Data, WordSize(t.DType))
    IN  [i \in 1..Len(mapped) |->
            IF t.DType = "I32" THEN Int32Of(mapped[i]) ELSE Uint32Of(mapped[i])]

RECURSIVE WideSum(_, _, _)
WideSum(vals, lo, hi) ==
    IF lo > hi THEN Wide(0, 0)
    ELSE IF lo = hi THEN vals[lo]
    ELSE LET mid == (lo + hi) \div 2
         IN  WideAdd(WideSum(vals, lo, mid), WideSum(vals, mid + 1, hi))

Saturated(n) == IF n > CountSaturation THEN CountSaturation ELSE n

\* C14: for an I32 tensor the mantissa CountSet counts bit positions:
\* position k (0..30) is non-zero exactly when bit k is one in at least one
\* element, bitsActuallyUsed is the number of such positions and bitsWasted
\* is 31 minus that number; the sign set records the most significant bit
\* of each element; min, max and avg are those of the elements as integers.
\* For {1, 2, 4, 8}: min = 1, max = 8, avg = 15/4 = 3.75, signs effective
\* = 1, bitsActuallyUsed = 4, bitsWasted = 27.  U32 is the same with 32
\* positions and no sign field.
C14_IntegerBitPositions ==
    (analysis.pc = "done" /\ analysis.err = "" /\ tensor.DType \in {"I32", "U32"}) =>
        LET a == analysis.rec
            mapped == Mapped(tensor.Data, WordSize(tensor.DType))
            vals == IntegerValues(tensor)
            width == IF tensor.DType = "I32" THEN 31 ELSE 32
            seen == {k \in 0..(width - 1) : \E i \in DOMAIN mapped : WordBit(mapped[i], k) = 1}
            msb(v) == Cardinality({i \in DOMAIN mapped : WordBit(mapped[i], 31) = v})
        IN  /\ Len(a.Mantissa.ValuesSeen.Counts) = width
            /\ \A k \in 0..(width - 1) : a.Mantissa.ValuesSeen.Counts[k + 1] # 0 <=> k \in seen
            /\ BitsActuallyUsed(a.Mantissa) = Float64OfInt(Cardinality(seen))
            /\ BitsWasted(a.Mantissa) = width - Cardinality(seen)
            /\ tensor.DType = "I32" =>
                    /\ a.Sign.Allocation = 1
                    /\ a.Sign.ValuesSeen.Counts = <<Saturated(msb(0)), Saturated(msb(1))>>
            /\ tensor.DType = "U32" =>
                    /\ a.Sign.Allocation = 0
                    /\ a.Sign.ValuesSeen.Counts = <<>>
            /\ a.NumEl >= 1 =>
                    /\ \E i \in DOMAIN vals : a.Min = vals[i]
                    /\ \E i \in DOMAIN vals : a.Max = vals[i]
                    /\ \A i \in DOMAIN vals : ~WideLess(vals[i], a.Min) /\ ~WideLess(a.Max, vals[i])
                    /\ a.Avg = [kind |-> "num", num |-> WideSum(vals, 1, Len(vals)), den |-> Len(vals)]
            /\ tensor = PowersI32Tensor =>
                    /\ a.Min = Wide(0, 1) /\ a.Max = Wide(0, 8)
                    /\ a.Avg.num = Wide(0, 15) /\ a.Avg.den = 4
                    /\ NumberDifferentValuesSeen(a.Sign) = 1
                    /\ BitsActuallyUsed(a.Mantissa) = Float64OfInt(4)
                    /\ BitsWasted(a.Mantissa) = 27

C14_Witness ==
    /\ analysis.pc = "done"
    /\ tensor = PowersI32Tensor
    /\ analysis.rec.DType = "I32"
    /\ BitsActuallyUsed(analysis.rec.Mantissa) = Float64OfInt(4)

\* C15: for every TensorAnalysis returned by AnalyzeTensor and each of its
\* three BitKinds, 1 <= NumberDifferentValuesSeen() <= 2^allocation; this
\* includes the zero-allocation kinds of the integer tensors and the integer
\* mantissa kinds of allocation 31 and 32 (an int32 is below 2^31, so the
\* upper bound needs a test only for smaller allocations).
C15_EffectiveRange ==
    (analysis.pc = "done" /\ analysis.err = "") =>
        \A b \in {analysis.rec.Sign, analysis.rec.Exponent, analysis.rec.Mantissa} :
            /\ 1 <= NumberDifferentValuesSeen(b)
            /\ GetAllocation(b) < 31 => NumberDifferentValuesSeen(b) <= Pow2(GetAllocation(b))

\* C16: for every TensorAnalysis of a tensor with at least one element,
\* BitsWasted() >= 0 for each of sign, exponent and mantissa, the three
\* values sum to at most 8 x wordSize(DType), and wastedBytes =
\* floor(numEl x sum / 8) is at most byteLength = numEl x wordSize(DType).
C16_WastedWithinLength ==
    (analysis.pc = "done" /\ analysis.err = "" /\ analysis.rec.NumEl >= 1) =>
        LET a == analysis.rec
            sum == BitsWasted(a.Sign) + BitsWasted(a.Exponent) + BitsWasted(a.Mantissa)
        IN  /\ BitsWasted(a.Sign) >= 0
            /\ BitsWasted(a.Exponent) >= 0
            /\ BitsWasted(a.Mantissa) >= 0
            /\ sum <= 8 * WordSize(a.DType)
            /\ WastedBytes(a) = (a.NumEl * sum) \div 8
            /\ WastedBytes(a) <= AnalyzedTensorLen(a)

\* A tensor of several elements has been analysed and some of its bits are
\* wasted.
C16_Witness ==
    /\ analysis.pc = "done"
    /\ analysis.err = ""
    /\ analysis.rec.NumEl >= 2
    /\ WastedBytes(analysis.rec) >= 1
    /\ WastedBytes(analysis.rec) < AnalyzedTensorLen(analysis.rec)
-----------------------------------------------------------------------------
(***************************************************************************)
(* cmd/n-bits: the concurrency limits of cmdAnalyze.                       *)
(* A uint64 is kept as its four 16-bit limbs, least significant first.     *)
(***************************************************************************)
\* x / d in uint64, for a divisor d below 2^15.
U64Div(x, d) ==
    LET c4 == x[4]
        c3 == (c4 % d) * 65536 + x[3]
        c2 == (c3 % d) * 65536 + x[2]
        c1 == (c2 % d) * 65536 + x[1]
    IN  <<c1 \div d, c2 \div d, c3 \div d, c4 \div d>>

\* x - 1 in uint64: 0 - 1 wraps to 2^64 - 1.
U64Dec(x) ==
    IF x[1] > 0 THEN <<x[1] - 1, x[2], x[3], x[4]>>
    ELSE IF x[2] > 0 THEN <<65535, x[2] - 1, x[3], x[4]>>
    ELSE IF x[3] > 0 THEN <<65535, 65535, x[3] - 1, x[4]>>
    ELSE IF x[4] > 0 THEN <<65535, 65535, 65535, x[4] - 1>>
    ELSE <<65535, 65535, 65535, 65535>>

\* x < n and x > n in uint64, for n below 2^16.
U64Less(x, n) == x[4] = 0 /\ x[3] = 0 /\ x[2] = 0 /\ x[1] < n

U64Greater(x, n) == x[4] > 0 \/ x[3] > 0 \/ x[2] > 0 \/ x[1] > n

\* cpus := runtime.NumCPU(); if cpus < 2 { cpus = 2 } else if cpus > 1024 { cpus = 1024 }
Cpus(numCPU) ==
    IF numCPU < 2 THEN 2
    ELSE IF numCPU > 1024 THEN 1024
    ELSE numCPU

\* p := memory.TotalMemory()/1024/1024/1024/5 - 1
\* if p < 1 { p = 1 } else if p > 16 { p = 16 }
FilePar(totalMemory) ==
    LET p == U64Dec(U64Div(U64Div(U64Div(U64Div(totalMemory, 1024), 1024), 1024), 5))
    IN  IF U64Less(p, 1) THEN 1
        ELSE IF U64Greater(p, 16) THEN 16
        ELSE p[1]

-----------------------------------------------------------------------------
(***************************************************************************)
(* cmd/n-bits: cmdAnalyze and processSafetensorsFile as a state machine.   *)
(* run.files are the files of the snapshot; a file either fails to open or *)
(* holds the tensors that reTensors retains.  The feeder goroutine, the    *)
(* drv.p file workers and the tensor goroutines of each worker take their  *)
(* steps in any order; the caller may cancel ctx while a worker runs.      *)
(* The program ends when cmdAnalyze returns.                               *)
(***************************************************************************)
MaxFiles == 2

\* context.Canceled, and the error of safetensors.Mapped.Open.
Canceled == "context canceled"

OpenError == "open failed"

\* The tensors of the files, matches being reTensors.MatchString(tensor.Name):
\* a BF16 tensor of the one element 1.0, an F8E4M3 tensor, which
\* AnalyzeTensor rejects, and an F8E4M3 tensor whose name does not match.
GoodTensor == [DType |-> "BF16", Data |-> <<128, 63>>, matches |-> TRUE]

BadTensor == [DType |-> "F8E4M3", Data |-> <<56>>, matches |-> TRUE]

SkippedTensor == [DType |-> "F8E4M3", Data |-> <<56>>, matches |-> FALSE]

\* The files: one that does not open, one without retained tensors, one
\* with a good tensor after a tensor that is not retained, and one with a
\* rejected tensor.
DriverFiles ==
    {[opens |-> FALSE, tensors |-> <<>>],
     [opens |-> TRUE, tensors |-> <<SkippedTensor>>],
     [opens |-> TRUE, tensors |-> <<SkippedTensor, GoodTensor>>],
     [opens |-> TRUE, tensors |-> <<BadTensor>>]}

RECURSIVE FileSeqs(_)
FileSeqs(n) ==
    IF n = 0 THEN {<<>>}
    ELSE LET shorter == FileSeqs(n - 1)
         IN  shorter \cup {Append(q, f) : q \in {x \in shorter : Len(x) = n - 1},
                                          f \in DriverFiles}

\* g GiB plus r bytes (r < 2^30), as a uint64.
GiB(g, r) ==
    LET upper == g * 16384 + r \div 65536
    IN  <<r % 65536, upper % 65536, upper \div 65536, 0>>

\* BF16 {0x3F80, 0xBF80}: 1 and -1.
PairTensor == [DType |-> "BF16", Data |-> LE16(16256) \o LE16(49024), matches |-> TRUE]

\* F16 {0, 1, NaN}, F32 {1, 3, 2e37}, I32 {1, 2, -1} and U32 {1, 2^32 - 1}.
MixedF16Tensor ==
    [DType |-> "F16", Data |-> LE16(0) \o LE16(15360) \o LE16(32256), matches |-> TRUE]

MixedF32Tensor ==
    [DType |-> "F32", Data |-> <<0, 0, 128, 63, 0, 0, 64, 64, 10, 188, 112, 125>>, matches |-> TRUE]

MixedI32Tensor ==
    [DType |-> "I32", Data |-> <<1, 0, 0, 0, 2, 0, 0, 0, 255, 255, 255, 255>>, matches |-> TRUE]

MixedU32Tensor ==
    [DType |-> "U32", Data |-> <<1, 0, 0, 0, 255, 255, 255, 255>>, matches |-> TRUE]

\* One file of eight supported tensors, on a machine of one CPU, the caller
\* never cancelling (run.cancels tells whether the caller may cancel ctx).
EightTensorRun ==
    [numCPU |-> 1, totalMemory |-> GiB(8, 0),
     files |-> <<[opens |-> TRUE,
                  tensors |-> <<PairTensor, GoodTensor, MixedF16Tensor, MixedF32Tensor,
                                MixedI32Tensor, MixedU32Tensor, PairTensor, GoodTensor>>]>>,
     out |-> TRUE, writable |-> TRUE, setup |-> "ok", cancels |-> FALSE]

\* A file of three tensors, the second rejected, next to a file of two good
\* tensors around one that is not retained, on a machine of two file workers
\* and two CPU slots.
MixedRun ==
    [numCPU |-> 2, totalMemory |-> GiB(16, 0),
     files |-> <<[opens |-> TRUE, tensors |-> <<GoodTensor, BadTensor, GoodTensor>>],
                 [opens |-> TRUE, tensors |-> <<GoodTensor, SkippedTensor, GoodTensor>>]>>,
     out |-> TRUE, writable |-> TRUE, setup |-> "ok", cancels |-> TRUE]

\* One file of three tensors, the second rejected, for the two CPU slots of
\* a machine of one CPU, the caller cancelling at any moment.
ContendedRun ==
    [numCPU |-> 1, totalMemory |-> GiB(8, 0),
     files |-> <<[opens |-> TRUE, tensors |-> <<GoodTensor, BadTensor, GoodTensor>>]>>,
     out |-> TRUE, writable |-> TRUE, setup |-> "ok", cancels |-> TRUE]

\* One file of one tensor on a machine of 1025 CPUs.
ManyCpuRun ==
    [numCPU |-> 1025, totalMemory |-> GiB(8, 0),
     files |-> <<[opens |-> TRUE, tensors |-> <<GoodTensor>>]>>,
     out |-> TRUE, writable |-> TRUE, setup |-> "ok", cancels |-> TRUE]

\* How the calls before the goroutines can end other than well: the error
\* of huggingface.New, the error of hf.EnsureSnapshot, and repo == "".
NewError == "huggingface.New failed"

SnapshotError == "EnsureSnapshot failed"

NoRepo == "repo is empty"

\* The runs that end before any file is known.
SetupRuns ==
    {[numCPU |-> 1, totalMemory |-> GiB(8, 0), files |-> <<>>, out |-> TRUE,
      writable |-> TRUE, setup |-> how, cancels |-> TRUE] : how \in {NewError, SnapshotError, NoRepo}}

\* A BF16 tensor without elements: its average is 0/0.
EmptyTensor == [DType |-> "BF16", Data |-> <<>>, matches |-> TRUE]

\* One file of the tensor BF16 {1, -1} on a machine of one CPU, the document
\* asked for being impossible to write.
UnwritableRun ==
    [numCPU |-> 1, totalMemory |-> GiB(8, 0),
     files |-> <<[opens |-> TRUE, tensors |-> <<PairTensor>>]>>,
     out |-> TRUE, writable |-> FALSE, setup |-> "ok", cancels |-> TRUE]

\* One file of a BF16 tensor without elements, on a machine of one CPU.
EmptyTensorRun ==
    [numCPU |-> 1, totalMemory |-> GiB(8, 0),
     files |-> <<[opens |-> TRUE, tensors |-> <<EmptyTensor>>]>>,
     out |-> TRUE, writable |-> TRUE, setup |-> "ok", cancels |-> TRUE]

\* The machines of the runs: one CPU (two CPU slots) with 8 GiB (one file
\* worker) and no document asked for, and three CPUs (three slots) with
\* 16 GiB (two file workers) and a document asked for.
DriverMachines ==
    {[numCPU |-> 1, gib |-> 8, out |-> FALSE], [numCPU |-> 3, gib |-> 16, out |-> TRUE]}

DriverRuns ==
    {[numCPU |-> m.numCPU, totalMemory |-> GiB(m.gib, 0), files |-> fs, out |-> m.out,
      writable |-> TRUE, setup |-> "ok", cancels |-> TRUE] :
        m \in DriverMachines, fs \in FileSeqs(MaxFiles)}
        \cup {MixedRun, ContendedRun, UnwritableRun, EmptyTensorRun}

\* The runs on which the CPU slots are followed.
SlotRuns == {EightTensorRun, ContendedRun, ManyCpuRun}

\* n_bits.AnalyzeTensor on each tensor of the files of the runs: a pure
\* function of the tensor, computed once per tensor.
RunTensors ==
    {GoodTensor, BadTensor, SkippedTensor, PairTensor, MixedF16Tensor, MixedF32Tensor,
     MixedI32Tensor, MixedU32Tensor, EmptyTensor}

AnalyzedTensors ==
    LET table == [t \in RunTensors |-> AnalyzeTensor(t)]
    IN  IF table = table THEN table ELSE table

\* A file worker: its position pc and its file f; for the tensor goroutines
\* of the file, their positions g, the value err2 each closure returns, the
\* slice analyzed and the error gerr of their errgroup; the lines printed
\* and the error err the worker returned.
WorkerAtRecv == [pc |-> "recv", f |-> 0, g |-> <<>>, err2 |-> <<>>, analyzed |-> <<>>,
                 gerr |-> "", printed |-> 0, err |-> ""]

DriverInit ==
    /\ run \in DriverRuns
    /\ drv = [DrvIdle EXCEPT !.pc = "start"]
    /\ workers = <<>>
    /\ output = OutputIdle
    /\ archives = <<>>
    /\ codec = CodecIdle
    /\ setobj = "none"
    /\ cs = CountSetZero
    /\ bs = BitSetZero
    /\ js = JsIdle
    /\ got = GotIdle
    /\ hist = HistInit
    /\ aborted = FALSE
    /\ tensor = TensorIdle
    /\ analysis = AnalysisIdle
    /\ bitkind = BitKindIdle

NotDriver == <<codec, setobj, cs, bs, js, got, hist, aborted, tensor, analysis, bitkind>>

\* cmdAnalyze up to the first eg.Go: the limits, the channels, the feeder
\* and the workers.
\* cmdAnalyze up to the start of the goroutines.  run.setup tells how the
\* calls before them end: the error of huggingface.New or of
\* hf.EnsureSnapshot is returned, nil is returned at once when repo == "",
\* and otherwise ("ok") the limits are computed, the feeder and the p file
\* workers are started.
DriverStart ==
    /\ drv.pc = "start"
    /\ IF run.setup # "ok"
       THEN /\ drv' = [drv EXCEPT !.pc = "returned",
                                  !.result = IF run.setup = NoRepo THEN "" ELSE run.setup]
            /\ UNCHANGED <<workers, archives>>
       ELSE /\ drv' = [drv EXCEPT !.pc = "wait",
                                  !.cpus = Cpus(run.numCPU),
                                  !.p = FilePar(run.totalMemory)]
            /\ workers' = [w \in 1..FilePar(run.totalMemory) |-> WorkerAtRecv]
            /\ archives' = [f \in DOMAIN run.files |-> [opened |-> 0, closed |-> 0]]
    /\ UNCHANGED <<run, output, NotDriver>>

\* The feeder: loadPipe <- f for each file, then close(loadPipe).
FeederSend ==
    /\ drv.pc = "wait"
    /\ drv.fed < Len(run.files)
    /\ Len(drv.loadPipe) < drv.p
    /\ drv' = [drv EXCEPT !.fed = @ + 1, !.loadPipe = Append(@, drv.fed + 1)]
    /\ UNCHANGED <<run, workers, output, archives, NotDriver>>

FeederClose ==
    /\ drv.pc = "wait"
    /\ drv.fed = Len(run.files)
    /\ ~drv.closed
    /\ drv' = [drv EXCEPT !.closed = TRUE]
    /\ UNCHANGED <<run, workers, output, archives, NotDriver>>

\* Mutant of WorkerReturn: the first error is kept but ctx2 is not cancelled.
WorkerReturn_NoCancel(w, err) ==
    /\ workers' = [workers EXCEPT ![w].pc = "returned", ![w].err = err]
    /\ drv' = IF err # "" /\ drv.err = ""
              THEN [drv EXCEPT !.err = err]
              ELSE drv

\* errgroup: the function given to eg.Go returned err; the first non-nil
\* error is kept and cancels ctx2.
WorkerReturn(w, err) ==
    /\ workers' = [workers EXCEPT ![w].pc = "returned", ![w].err = err]
    /\ drv' = IF err # "" /\ drv.err = ""
              THEN [drv EXCEPT !.err = err, !.ctx2 = TRUE]
              ELSE drv

\* for f := range loadPipe
WorkerRecv(w) ==
    /\ drv.pc = "wait"
    /\ workers[w].pc = "recv"
    /\ \/ /\ drv.loadPipe # <<>>
          /\ workers' = [workers EXCEPT ![w].pc = "check", ![w].f = Head(drv.loadPipe)]
          /\ drv' = [drv EXCEPT !.loadPipe = Tail(@)]
       \/ /\ drv.loadPipe = <<>>
          /\ drv.closed
          /\ WorkerReturn(w, "")
    /\ UNCHANGED <<run, output, archives, NotDriver>>

\* if err2 := ctx2.Err(); err2 != nil { return err2 }; fmt.Printf("Processing ...")
WorkerCheck(w) ==
    /\ drv.pc = "wait"
    /\ workers[w].pc = "check"
    /\ IF drv.ctx2
       THEN WorkerReturn(w, Canceled) /\ UNCHANGED output
       ELSE /\ workers' = [workers EXCEPT ![w].pc = "open"]
            /\ output' = [output EXCEPT !.processing = Append(@, workers[w].f)]
            /\ UNCHANGED drv
    /\ UNCHANGED <<run, archives, NotDriver>>

\* toAnalyze: the indices, from index i on, of the tensors whose name
\* matches reTensors.
RECURSIVE ToAnalyzeFrom(_, _)
ToAnalyzeFrom(tensors, i) ==
    IF i > Len(tensors) THEN <<>>
    ELSE (IF tensors[i].matches THEN <<i>> ELSE <<>>) \o ToAnalyzeFrom(tensors, i + 1)

ToAnalyze(file) == ToAnalyzeFrom(file.tensors, 1)

\* Mutant of WorkerOpen: the cancellation seen after Open returns without
\* closing the archive.
WorkerOpen_LeakOnCancel(w) ==
    /\ drv.pc = "wait"
    /\ workers[w].pc = "open"
    /\ LET file == run.files[workers[w].f]
       IN  IF ~file.opens THEN WorkerReturn(w, OpenError) /\ UNCHANGED archives
           ELSE IF drv.ctx2
           THEN /\ WorkerReturn(w, Canceled)
                /\ archives' = [archives EXCEPT ![workers[w].f].opened = @ + 1]
           ELSE /\ workers' = [workers EXCEPT
                                  ![w].pc = "wait",
                                  ![w].g = [j \in 1..Len(ToAnalyze(file)) |-> "acquire"],
                                  ![w].err2 = [j \in 1..Len(ToAnalyze(file)) |-> ""],
                                  ![w].analyzed = [j \in 1..Len(ToAnalyze(file)) |-> NoAnalysis],
                                  ![w].gerr = ""]
                /\ archives' = [archives EXCEPT ![workers[w].f].opened = @ + 1]
                /\ UNCHANGED drv
    /\ UNCHANGED <<run, output, NotDriver>>

\* processSafetensorsFile up to the eg.Go calls; its error makes the worker
\* return it.  s.Open(name) failing leaves nothing to close; after it
\* succeeded, defer s.Close() runs when processSafetensorsFile returns.
WorkerOpen(w) ==
    /\ drv.pc = "wait"
    /\ workers[w].pc = "open"
    /\ LET file == run.files[workers[w].f]
       IN  IF ~file.opens THEN WorkerReturn(w, OpenError) /\ UNCHANGED archives
           ELSE IF drv.ctx2
           THEN /\ WorkerReturn(w, Canceled)
                /\ archives' = [archives EXCEPT ![workers[w].f].opened = @ + 1,
                                                ![workers[w].f].closed = @ + 1]
           ELSE /\ workers' = [workers EXCEPT
                                  ![w].pc = "wait",
                                  ![w].g = [j \in 1..Len(ToAnalyze(file)) |-> "acquire"],
                                  ![w].err2 = [j \in 1..Len(ToAnalyze(file)) |-> ""],
                                  ![w].analyzed = [j \in 1..Len(ToAnalyze(file)) |-> NoAnalysis],
                                  ![w].gerr = ""]
                /\ archives' = [archives EXCEPT ![workers[w].f].opened = @ + 1]
                /\ UNCHANGED drv
    /\ UNCHANGED <<run, output, NotDriver>>

\* Mutant of TensorAcquire: the send does not wait for a free slot.
TensorAcquire_NoLimit(w, j) ==
    /\ drv.pc = "wait"
    /\ workers[w].pc = "wait"
    /\ workers[w].g[j] = "acquire"
    /\ drv' = [drv EXCEPT !.cpuLimit = @ + 1]
    /\ workers' = [workers EXCEPT ![w].g[j] = "check"]
    /\ UNCHANGED <<run, output, archives, NotDriver>>

\* cpuLimit <- struct{}{}
TensorAcquire(w, j) ==
    /\ drv.pc = "wait"
    /\ workers[w].pc = "wait"
    /\ workers[w].g[j] = "acquire"
    /\ drv.cpuLimit < drv.cpus
    /\ drv' = [drv EXCEPT !.cpuLimit = @ + 1]
    /\ workers' = [workers EXCEPT ![w].g[j] = "check"]
    /\ UNCHANGED <<run, output, archives, NotDriver>>

\* The inner errgroup keeps the first non-nil error of its goroutines.
FirstError(gerr, err) == IF gerr = "" THEN err ELSE gerr

\* if err2 := ctx.Err(); err2 != nil { return err2 }: on a cancelled
\* context the closure returns the error, which runs its deferred function
\* next.
TensorCheck(w, j) ==
    /\ drv.pc = "wait"
    /\ workers[w].pc = "wait"
    /\ workers[w].g[j] = "check"
    /\ workers' = IF drv.ctx2
                  THEN [workers EXCEPT ![w].g[j] = "release", ![w].err2[j] = Canceled]
                  ELSE [workers EXCEPT ![w].g[j] = "analyze"]
    /\ UNCHANGED <<run, drv, output, archives, NotDriver>>

\* analyzed[j], err2 = n_bits.AnalyzeTensor(n, s.Tensors[i]); return err2
TensorAnalyze(w, j) ==
    /\ drv.pc = "wait"
    /\ workers[w].pc = "wait"
    /\ workers[w].g[j] = "analyze"
    /\ LET file == run.files[workers[w].f]
           r == AnalyzedTensors[file.tensors[ToAnalyze(file)[j]]]
       IN  workers' = [workers EXCEPT ![w].g[j] = "release",
                                     ![w].analyzed[j] = r.rec,
                                     ![w].err2[j] = r.err]
    /\ UNCHANGED <<run, drv, output, archives, NotDriver>>

\* Mutant of TensorRelease: the closure returns without the deferred
\* <-cpuLimit.
TensorRelease_KeepSlot(w, j) ==
    /\ drv.pc = "wait"
    /\ workers[w].pc = "wait"
    /\ workers[w].g[j] = "release"
    /\ workers' = [workers EXCEPT ![w].g[j] = "return"]
    /\ UNCHANGED <<run, drv, output, archives, NotDriver>>

\* defer func() { <-cpuLimit }(): the slot is given back as the closure
\* returns, before errgroup sees the value returned.
TensorRelease(w, j) ==
    /\ drv.pc = "wait"
    /\ workers[w].pc = "wait"
    /\ workers[w].g[j] = "release"
    /\ drv' = [drv EXCEPT !.cpuLimit = @ - 1]
    /\ workers' = [workers EXCEPT ![w].g[j] = "return"]
    /\ UNCHANGED <<run, output, archives, NotDriver>>

\* errgroup, in the goroutine of eg.Go:
\* defer g.done(); if err := f(); err != nil { g.errOnce.Do(func() { g.err = err }) }
\* g.err is read by Wait alone, after every goroutine is done, so the store
\* and the done that follows it are one step.
TensorReturn(w, j) ==
    /\ drv.pc = "wait"
    /\ workers[w].pc = "wait"
    /\ workers[w].g[j] = "return"
    /\ workers' = [workers EXCEPT
                      ![w].g[j] = "done",
                      ![w].gerr = IF workers[w].err2[j] # ""
                                  THEN FirstError(@, workers[w].err2[j])
                                  ELSE @]
    /\ UNCHANGED <<run, drv, output, archives, NotDriver>>

\* err := eg.Wait() of processSafetensorsFile and its return, which runs the
\* deferred s.Close(), then in the worker:
\* if err2 != nil { return err2 }; if err2 := ctx2.Err(); err2 != nil { return err2 }
WorkerWait(w) ==
    /\ drv.pc = "wait"
    /\ workers[w].pc = "wait"
    /\ \A j \in DOMAIN workers[w].g : workers[w].g[j] = "done"
    /\ IF workers[w].gerr # "" THEN WorkerReturn(w, workers[w].gerr)
       ELSE IF drv.ctx2 THEN WorkerReturn(w, Canceled)
       ELSE /\ workers' = [workers EXCEPT ![w].pc = "print", ![w].printed = 0]
            /\ UNCHANGED drv
    /\ archives' = [archives EXCEPT ![workers[w].f].closed = @ + 1]
    /\ UNCHANGED <<run, output, NotDriver>>

\* One round of "for _, a := range analyzed { ... fmt.Printf(...) }".
WorkerPrint(w) ==
    /\ drv.pc = "wait"
    /\ workers[w].pc = "print"
    /\ workers[w].printed < Len(workers[w].analyzed)
    /\ workers' = [workers EXCEPT ![w].printed = @ + 1]
    /\ output' = [output EXCEPT
                     !.lines = Append(@, [f |-> workers[w].f, j |-> workers[w].printed + 1,
                                          wasted |-> WastedBits(workers[w].analyzed[workers[w].printed + 1])])]
    /\ UNCHANGED <<run, drv, archives, NotDriver>>

\* Mutant of WorkerMerge: the analyses replace all.Tensors.
WorkerMerge_Overwrite(w) ==
    /\ drv.pc = "wait"
    /\ workers[w].pc = "print"
    /\ workers[w].printed = Len(workers[w].analyzed)
    /\ drv' = [drv EXCEPT !.all = <<>> \o [j \in 1..Len(workers[w].analyzed) |->
                                            [f |-> workers[w].f,
                                             j |-> ToAnalyze(run.files[workers[w].f])[j],
                                             a |-> workers[w].analyzed[j]]]]
    /\ workers' = [workers EXCEPT ![w].pc = "recv"]
    /\ UNCHANGED <<run, output, archives, NotDriver>>

\* mu.Lock(); all.Tensors = append(all.Tensors, analyzed...); mu.Unlock()
WorkerMerge(w) ==
    /\ drv.pc = "wait"
    /\ workers[w].pc = "print"
    /\ workers[w].printed = Len(workers[w].analyzed)
    /\ drv' = [drv EXCEPT !.all = @ \o [j \in 1..Len(workers[w].analyzed) |->
                                            [f |-> workers[w].f,
                                             j |-> ToAnalyze(run.files[workers[w].f])[j],
                                             a |-> workers[w].analyzed[j]]]]
    /\ workers' = [workers EXCEPT ![w].pc = "recv"]
    /\ UNCHANGED <<run, output, archives, NotDriver>>

\* if err = eg.Wait(); err != nil { return err }: Wait returns once every
\* worker has returned, cancels ctx2 and gives the first error.
DriverWait ==
    /\ drv.pc = "wait"
    /\ \A w \in DOMAIN workers : workers[w].pc = "returned"
    /\ drv' = IF drv.err # ""
              THEN [drv EXCEPT !.pc = "returned", !.ctx2 = TRUE, !.result = drv.err]
              ELSE [drv EXCEPT !.pc = "rollup", !.ctx2 = TRUE]
    /\ UNCHANGED <<run, workers, output, archives, NotDriver>>

\* The sums of the rollup over all.Tensors[from..].
RECURSIVE Rollup(_, _)
Rollup(all, from) ==
    IF from > Len(all) THEN [bytesWasted |-> 0, totalBytes |-> 0, totalWeights |-> 0]
    ELSE LET rest == Rollup(all, from + 1)
             a == all[from].a
         IN  [bytesWasted |-> WastedBytes(a) + rest.bytesWasted,
              totalBytes |-> AnalyzedTensorLen(a) + rest.totalBytes,
              totalWeights |-> a.NumEl + rest.totalWeights]

\* The errors of json.Marshal and of os.WriteFile.
UnsupportedValue == "json: unsupported value"

WriteError == "write failed"

\* json.Marshal(all) returns an UnsupportedValueError: some float64 of the
\* document is NaN or infinite.  Min and Max are those of finite elements or
\* the values they start from, so it is the Avg of a tensor without
\* elements.
MarshalFails(all) == \E k \in DOMAIN all : all[k].a.Avg.kind # "num"

\* The rollup line; then, if out != "", json.Marshal(all) and
\* os.WriteFile(out, data), each returning its error; then return nil.
\* run.writable tells whether os.WriteFile succeeds.
DriverRollup ==
    /\ drv.pc = "rollup"
    /\ LET err == IF ~run.out THEN ""
                  ELSE IF MarshalFails(drv.all) THEN UnsupportedValue
                  ELSE IF ~run.writable THEN WriteError
                  ELSE ""
       IN  /\ output' = [output EXCEPT !.rollup = <<Rollup(drv.all, 1)>>,
                                       !.doc = IF run.out /\ err = "" THEN <<drv.all>>
                                               ELSE <<>>]
           /\ drv' = [drv EXCEPT !.pc = "returned", !.result = err]
    /\ UNCHANGED <<run, workers, archives, NotDriver>>

\* The caller cancels ctx while some worker has not returned; ctx2 is
\* derived from ctx.
Cancel ==
    /\ run.cancels
    /\ drv.pc = "wait"
    /\ ~drv.ctx
    /\ \E w \in DOMAIN workers : workers[w].pc # "returned"
    /\ drv' = [drv EXCEPT !.ctx = TRUE, !.ctx2 = TRUE]
    /\ UNCHANGED <<run, workers, output, archives, NotDriver>>

DriverNext ==
    \/ DriverStart
    \/ FeederSend
    \/ FeederClose
    \/ \E w \in DOMAIN workers :
        \/ WorkerRecv(w)
        \/ WorkerCheck(w)
        \/ WorkerOpen(w)
        \/ \E j \in DOMAIN workers[w].g :
            \/ TensorAcquire(w, j)
            \/ TensorCheck(w, j)
            \/ TensorAnalyze(w, j)
            \/ TensorRelease(w, j)
            \/ TensorReturn(w, j)
        \/ WorkerWait(w)
        \/ WorkerPrint(w)
        \/ WorkerMerge(w)
    \/ DriverWait
    \/ DriverRollup
    \/ Cancel

SpecDriver == DriverInit /\ [][DriverNext]_vars

SlotsInit ==
    /\ run \in SlotRuns
    /\ drv = [DrvIdle EXCEPT !.pc = "start"]
    /\ workers = <<>>
    /\ output = OutputIdle
    /\ archives = <<>>
    /\ codec = CodecIdle
    /\ setobj = "none"
    /\ cs = CountSetZero
    /\ bs = BitSetZero
    /\ js = JsIdle
    /\ got = GotIdle
    /\ hist = HistInit
    /\ aborted = FALSE
    /\ tensor = TensorIdle
    /\ analysis = AnalysisIdle
    /\ bitkind = BitKindIdle

SpecSlots == SlotsInit /\ [][DriverNext]_vars

\* The positions of a tensor goroutine: before the send to cpuLimit, at
\* the poll of the context, in AnalyzeTensor, at the deferred receive from
\* cpuLimit, back in errgroup with the value returned, and finished.  A
\* slot is held at the positions Slotted, the closure is executing its body
\* at those of InClosure, and the goroutine has not finished at those of
\* Unfinished.
Slotted == {"check", "analyze", "release"}

InClosure == {"acquire", "check", "analyze", "release"}

Unfinished == InClosure \cup {"return"}

\* The tensor goroutines <<w, j>> whose position is in pcs.
GoroutinesAt(pcs) ==
    UNION {{<<w, j>> : j \in {k \in DOMAIN workers[w].g : workers[w].g[k] \in pcs}} :
            w \in DOMAIN workers}

-----------------------------------------------------------------------------
(***************************************************************************)
(* The limits alone: cmdAnalyze starts on a machine drawn from a range of  *)
(* memory sizes and CPU counts, with no file to analyse.                   *)
(***************************************************************************)
MaxGiB == 96

\* Memory sizes: every whole number of GiB up to MaxGiB, the same plus one
\* byte less than a GiB, 2^48 bytes and 2^64 - 1 bytes.
TotalMemories ==
    {GiB(g, r) : g \in 0..MaxGiB, r \in {0, 1073741823}}
        \cup {<<0, 0, 0, 1>>, <<65535, 65535, 65535, 65535>>}

CpuCounts == {1, 2, 1024, 1025}

LimitsInit ==
    /\ run \in {[numCPU |-> c, totalMemory |-> m, files |-> <<>>, out |-> FALSE,
                 writable |-> TRUE, setup |-> "ok", cancels |-> TRUE] :
                    c \in CpuCounts, m \in TotalMemories}
    /\ drv = [DrvIdle EXCEPT !.pc = "start"]
    /\ workers = <<>>
    /\ output = OutputIdle
    /\ archives = <<>>
    /\ codec = CodecIdle
    /\ setobj = "none"
    /\ cs = CountSetZero
    /\ bs = BitSetZero
    /\ js = JsIdle
    /\ got = GotIdle
    /\ hist = HistInit
    /\ aborted = FALSE
    /\ tensor = TensorIdle
    /\ analysis = AnalysisIdle
    /\ bitkind = BitKindIdle

LimitsNext == DriverStart

SpecLimits == LimitsInit /\ [][LimitsNext]_vars

\* C18: the number of file workers and the capacity of the file queue are
\* both filePar = clamp(floor(totalBytes / 5 GiB) - 1, 1, 16) for every
\* uint64 totalBytes: below 5 GiB and below 10 GiB this is 1, and 16 is
\* reached only from 85 GiB.  (floor(totalBytes / 1 GiB) is
\* totalBytes[3] * 4 + totalBytes[2] \div 16384 when totalBytes < 2^48.)
C18_FilePar ==
    drv.pc = "wait" =>
        LET m == run.totalMemory
            fifths == (m[3] * 4 + m[2] \div 16384) \div 5
            filePar == IF m[4] > 0 \/ fifths - 1 > 16 THEN 16
                       ELSE IF fifths - 1 < 1 THEN 1
                       ELSE fifths - 1
        IN  /\ drv.p = filePar
            /\ Len(workers) = filePar

\* A file that processSafetensorsFile cannot turn into analyses.
FileFails(file) ==
    ~file.opens \/ \E j \in DOMAIN file.tensors :
                        file.tensors[j].matches /\ AnalyzeTensor(file.tensors[j]).err # ""

\* C19: once the caller has cancelled the context in the middle of a run,
\* no further per-tensor line, no rollup line and no persisted document is
\* emitted, whatever the workers were doing, and the driver returns an
\* error, which is the cancellation error when no file of the run fails.
C19_CancelStopsOutput ==
    [][drv.ctx =>
        /\ output'.lines = output.lines
        /\ output'.rollup = output.rollup
        /\ output'.doc = output.doc
        /\ (drv.pc # "returned" /\ drv'.pc = "returned") =>
                /\ drv'.result # ""
                /\ (\A f \in DOMAIN run.files : ~FileFails(run.files[f])) =>
                        drv'.result = Canceled]_vars

\* C20: nothing is recovered locally.  A worker that returns an error
\* stays returned, and the shared context is cancelled from then on; the
\* error the group keeps is that of the first worker to return one; the
\* driver leaves eg.Wait only after every worker has returned, and then
\* returns the kept error without rollup line or persisted document; the
\* tensors of a failing file, and those of the file a worker was on when it
\* returned an error (that of the open, of a tensor or of the
\* cancellation), are never merged into the model.
C20_FirstErrorEndsRun ==
    /\ [](/\ \A w \in DOMAIN workers :
                (workers[w].pc = "returned" /\ workers[w].err # "") =>
                    drv.ctx2 /\ drv.err # ""
          /\ drv.pc \in {"rollup", "returned"} =>
                \A w \in DOMAIN workers : workers[w].pc = "returned"
          /\ drv.err # "" => drv.pc # "rollup"
          /\ (drv.pc = "returned" /\ drv.err # "") =>
                drv.result = drv.err /\ output.rollup = <<>> /\ output.doc = <<>>
          /\ \A k \in DOMAIN drv.all : ~FileFails(run.files[drv.all[k].f])
          /\ \A w \in DOMAIN workers :
                (workers[w].pc = "returned" /\ workers[w].err # "" /\ workers[w].f > 0) =>
                    \A k \in DOMAIN drv.all : drv.all[k].f # workers[w].f)
    /\ [][/\ drv.err # "" => drv'.err = drv.err
          /\ \A w \in DOMAIN workers :
                /\ workers[w].pc = "returned" => workers'[w] = workers[w]
                /\ (drv.err = "" /\ workers[w].pc # "returned"
                        /\ workers'[w].pc = "returned" /\ workers'[w].err # "") =>
                            drv'.err = workers'[w].err]_vars

\* A file failed on a rejected tensor while another worker was on a sound
\* file: the driver returned that error, the caller never having cancelled,
\* and the other worker returned the cancellation with a tensor of its file
\* analysed, none of them merged.
C20_Witness ==
    /\ drv.pc = "returned"
    /\ ~drv.ctx
    /\ drv.result \notin {"", OpenError, Canceled}
    /\ output.rollup = <<>>
    /\ \E w \in DOMAIN workers :
        /\ workers[w].err = Canceled
        /\ workers[w].f > 0
        /\ ~FileFails(run.files[workers[w].f])
        /\ \E j \in DOMAIN workers[w].analyzed : workers[w].analyzed[j] # NoAnalysis
        /\ \A k \in DOMAIN drv.all : drv.all[k].f # workers[w].f

\* The tensors <<f, i>> of the run whose name matches the filter.
MatchingTensors ==
    UNION {{<<f, i>> : i \in {k \in DOMAIN run.files[f].tensors : run.files[f].tensors[k].matches}} :
            f \in DOMAIN run.files}

\* C21: at every instant the merged collection holds no tensor twice, each
\* record in it is the analysis of a matching tensor of an input file, and
\* a file is in it with all its matching tensors or not at all; when the
\* run ends without error it holds exactly one record for each matching
\* tensor of each file and none for another tensor, and so does the
\* persisted document when one is asked for.
C21_ExactlyOnce ==
    LET merged == {<<drv.all[k].f, drv.all[k].j>> : k \in DOMAIN drv.all}
    IN  /\ Cardinality(merged) = Len(drv.all)
        /\ merged \subseteq MatchingTensors
        /\ \A k \in DOMAIN drv.all :
                drv.all[k].a = AnalyzeTensor(run.files[drv.all[k].f].tensors[drv.all[k].j]).rec
        /\ \A x \in merged, y \in MatchingTensors : x[1] = y[1] => y \in merged
        /\ (drv.pc = "returned" /\ drv.result = "") =>
                /\ merged = MatchingTensors
                /\ run.out => output.doc = <<drv.all>>

\* Two workers each merged the analysis of one file, in the order opposite
\* to that of the files, and the run ended without error.
C21_Witness ==
    /\ drv.pc = "returned"
    /\ drv.result = ""
    /\ Len(drv.all) = 2
    /\ drv.all[1].f = 2
    /\ drv.all[2].f = 1
    /\ \E f \in DOMAIN run.files : Len(run.files[f].tensors) > 1

-----------------------------------------------------------------------------
(***************************************************************************)
(* The float sweeps, element by element.                                   *)
(***************************************************************************)
\* The sign, exponent and mantissa fields of the bit pattern of element q
\* (its wire bytes) of a float tensor of DType dt.
PatternFields(dt, q) ==
    LET w == q[1] + 256 * q[2]
    IN  CASE dt = "F16" -> [s |-> w \div 32768, e |-> (w \div 1024) % 32, m |-> w % 1024]
          [] dt = "BF16" -> [s |-> w \div 32768, e |-> (w \div 128) % 256, m |-> w % 128]
          [] dt = "F32" -> [s |-> q[4] \div 128, e |-> (q[4] % 128) * 2 + q[3] \div 128,
                            m |-> (q[3] % 128) * 65536 + q[2] * 256 + q[1]]

\* The class of element q: "nan", "inf" (an infinity or a magnitude above
\* 1e37) or "finite".  No F16 value exceeds 65504; a BF16 pattern is the
\* upper half of the float32 of the same value.
PatternClass(dt, q) ==
    LET c == PatternFields(dt, q)
        top == IF dt = "F16" THEN 31 ELSE 255
        wide == [s |-> c.s, e |-> c.e, m |-> IF dt = "BF16" THEN c.m * 65536 ELSE c.m]
    IN  IF c.e = top /\ c.m # 0 THEN "nan"
        ELSE IF c.e = top THEN "inf"
        ELSE IF dt # "F16" /\ Beyond1e37(wide) THEN "inf"
        ELSE "finite"

\* The float32 value of element q.
PatternValue(dt, q) ==
    CASE dt = "F16" -> F16Float32(q[1] + 256 * q[2])
      [] dt = "BF16" -> BF16Float32(q[1] + 256 * q[2])
      [] dt = "F32" -> Float32FromBytes(q)

\* C22 as stated: in the sweep of an F16, BF16 or F32 tensor every element falls in
\* exactly one class: the NaN tally and the Inf tally count the NaN elements
\* and the elements that are infinite or of magnitude above 1e37, and with
\* the finite elements they add up to the element count; min and max are
\* those of the finite elements and stay +MaxFloat32 and -MaxFloat32 when
\* there is none; the sum is zero when there is no finite element; the
\* sign, exponent and mantissa sets record the fields of every element of
\* every class; NaN and Inf content is no error.  F16 {0x7C00, 0xFC00} gives
\* inf = 2, nan = 0 and F16 {0x7E00} gives nan = 1, inf = 0.
C22_FloatClasses ==
    (analysis.pc = "done" /\ tensor.DType \in {"F16", "BF16", "F32"}) =>
        LET dt == tensor.DType
            a == analysis.rec
            mapped == Mapped(tensor.Data, WordSize(dt))
            of(class) == {i \in DOMAIN mapped : PatternClass(dt, mapped[i]) = class}
            finite == of("finite")
            field(i) == PatternFields(dt, mapped[i])
            value(i) == PatternValue(dt, mapped[i])
            signs(s) == Cardinality({i \in DOMAIN mapped : field(i).s = s})
        IN  /\ analysis.err = ""
            /\ a.NaN = Cardinality(of("nan"))
            /\ a.Inf = Cardinality(of("inf"))
            /\ a.NaN + a.Inf + Cardinality(finite) = a.NumEl
            /\ a.NumEl = Len(mapped)
            /\ finite = {} => /\ a.Min = MaxFloat32 /\ a.Max = NegMaxFloat32
                              /\ a.Avg.kind = "num" => a.Avg.num.n = 0
            /\ finite # {} =>
                    /\ \E i \in finite : Order32(a.Min) = Order32(value(i))
                    /\ \E i \in finite : Order32(a.Max) = Order32(value(i))
                    /\ \A i \in finite : /\ Order32(a.Min) <= Order32(value(i))
                                         /\ Order32(value(i)) <= Order32(a.Max)
            /\ a.Sign.ValuesSeen.Counts = <<Saturated(signs(0)), Saturated(signs(1))>>
            /\ \A e \in 0..(Len(a.Exponent.ValuesSeen.Counts) - 1) :
                    a.Exponent.ValuesSeen.Counts[e + 1] # 0 <=> \E i \in DOMAIN mapped : field(i).e = e
            /\ \A i \in DOMAIN mapped : /\ field(i).e < Len(a.Exponent.ValuesSeen.Counts)
                                        /\ field(i).m < a.Mantissa.ValuesSeen.Len
            /\ \A m \in {field(i).m : i \in DOMAIN mapped} : BitSetGet(a.Mantissa.ValuesSeen, m).v
            /\ BitSetEffective(a.Mantissa.ValuesSeen) = Cardinality({field(i).m : i \in DOMAIN mapped})
            /\ tensor.Data = LE16(31744) \o LE16(64512) /\ dt = "F16" => a.Inf = 2 /\ a.NaN = 0
            /\ tensor.Data = LE16(32256) /\ dt = "F16" => a.NaN = 1 /\ a.Inf = 0

\* C23 as stated: for an F32 tensor whose elements are all finite and of
\* magnitude at most 1e37, avg is the arithmetic mean of the elements (the
\* running sum divided by the element count; {1.0, 3.0} gives 2.0) and min
\* and max are the smallest and largest element, as on the F16 and BF16
\* paths.
C23_F32Mean ==
    LET mapped == Mapped(tensor.Data, WordSize("F32"))
        vals == [i \in DOMAIN mapped |-> Float32FromBytes(mapped[i])]
    IN  (/\ analysis.pc = "done" /\ analysis.err = "" /\ tensor.DType = "F32"
         /\ Len(mapped) >= 1
         /\ \A i \in DOMAIN mapped : PatternClass("F32", mapped[i]) = "finite") =>
            LET sum == SumOver(vals, DOMAIN vals, 1, Len(vals))
                avg == analysis.rec.Avg
            IN  /\ avg.kind = "num"
                /\ Dyadic(avg.num.n * Len(vals), avg.num.k) = Dyadic(sum.n * avg.den, sum.k)
                /\ \E i \in DOMAIN vals : Order32(analysis.rec.Min) = Order32(vals[i])
                /\ \E i \in DOMAIN vals : Order32(analysis.rec.Max) = Order32(vals[i])
                /\ \A i \in DOMAIN vals : /\ Order32(analysis.rec.Min) <= Order32(vals[i])
                                          /\ Order32(vals[i]) <= Order32(analysis.rec.Max)

-----------------------------------------------------------------------------
(***************************************************************************)
(* Wasted bits, wasted bytes and the rollup.                               *)
(***************************************************************************)
\* The number of non-empty cells of the population set of BitKind b.
NonEmptyCells(b) ==
    IF b.kind = "BitKindBool"
    THEN Cardinality({o \in b.ValuesSeen.Bits.ones : o[1] * WordBits + o[2] < b.ValuesSeen.Len})
    ELSE Cardinality({i \in DOMAIN b.ValuesSeen.Counts : b.ValuesSeen.Counts[i] # 0})

\* c is ceil(log2(n)): the least c >= 0 with 2^c >= n.  No c is when n = 0,
\* which has no logarithm.
IsCeilingOfLog2(c, n) == n >= 1 /\ c \in 0..30 /\ Pow2(c) >= n /\ (c = 0 \/ Pow2(c - 1) < n)

\* floor(numEl x (sign.wasted + exponent.wasted + mantissa.wasted) / 8),
\* which is 0 without elements.
FlooredWaste(a) ==
    IF a.NumEl = 0 THEN 0
    ELSE (a.NumEl * (BitsWasted(a.Sign) + BitsWasted(a.Exponent) + BitsWasted(a.Mantissa))) \div 8

\* The sum of F(all[k].a) over k in lo..hi.
RECURSIVE SumAnalyses(_, _, _, _)
SumAnalyses(F(_), all, lo, hi) ==
    IF lo > hi THEN 0
    ELSE IF lo = hi THEN F(all[lo].a)
    ELSE SumAnalyses(F, all, lo, (lo + hi) \div 2) + SumAnalyses(F, all, (lo + hi) \div 2 + 1, hi)

\* The analyses the run holds: those of the tensor goroutines that have
\* returned and those merged.
HeldAnalyses ==
    {workers[w].analyzed[j] : <<w, j>> \in GoroutinesAt({"release", "return", "done"})}
        \cup {drv.all[k].a : k \in DOMAIN drv.all}

\* The sign, exponent and float-mantissa BitKinds of analysis a.
FieldKinds(a) ==
    {a.Sign, a.Exponent} \cup (IF a.Mantissa.kind = "BitKindBool" THEN {a.Mantissa} ELSE {})

\* The wasted bytes of each analysis held and the three sums of the rollup:
\* floor(numEl x (sign.wasted + exponent.wasted + mantissa.wasted) / 8) per
\* tensor, 3 for BF16 {0x3F80, 0xBF80} with its populations of 2, 1 and 1,
\* and the sums of the floored values, of byteLength and of numEl.
WastedBytesAndRollup ==
    /\ \A a \in HeldAnalyses \ {NoAnalysis} : WastedBytes(a) = FlooredWaste(a)
    /\ \A k \in DOMAIN drv.all :
            (run.files[drv.all[k].f].tensors[drv.all[k].j] = PairTensor) =>
                LET a == drv.all[k].a
                IN  /\ NumberDifferentValuesSeen(a.Sign) = 2
                    /\ NumberDifferentValuesSeen(a.Exponent) = 1
                    /\ NumberDifferentValuesSeen(a.Mantissa) = 1
                    /\ WastedBytes(a) = 3
    /\ output.rollup # <<>> =>
            LET numEl(a) == a.NumEl
                byteLength(a) == a.NumEl * WordSize(a.DType)
                n == Len(drv.all)
            IN  /\ output.rollup[1].bytesWasted = SumAnalyses(FlooredWaste, drv.all, 1, n)
                /\ output.rollup[1].totalBytes = SumAnalyses(byteLength, drv.all, 1, n)
                /\ output.rollup[1].totalWeights = SumAnalyses(numEl, drv.all, 1, n)

\* C24: for the sign, exponent and float-mantissa BitKind of every analysis,
\* BitsWasted() = allocation - ceil(log2(effective)) when allocation > 0,
\* effective being the number of non-empty cells of the population set, and
\* BitsWasted() = 0 when allocation = 0; the wasted bytes of a tensor are
\* floor(numEl x (sign.wasted + exponent.wasted + mantissa.wasted) / 8);
\* BF16 {0x3F80, 0xBF80} has effective populations 2, 1 and 1 and
\* wastedBytes = 3; the rollup's wasted bytes are the sum of the per-tensor
\* floored values, its total bytes the sum of byteLength and its weight
\* count the sum of numEl.
C24_WastedAndRollup ==
    /\ \A a \in HeldAnalyses \ {NoAnalysis} : \A b \in FieldKinds(a) :
            /\ NumberDifferentValuesSeen(b) = NonEmptyCells(b)
            /\ b.Allocation > 0 =>
                    \E c \in 0..30 : /\ IsCeilingOfLog2(c, NonEmptyCells(b))
                                     /\ BitsWasted(b) = b.Allocation - c
            /\ b.Allocation = 0 => BitsWasted(b) = 0
    /\ WastedBytesAndRollup

\* The same for the BitKinds that saw a value, which are all those with an
\* allocation in a tensor of at least one element.
C24_SeenWastedAndRollup ==
    /\ \A a \in HeldAnalyses \ {NoAnalysis} : \A b \in FieldKinds(a) :
            /\ NumberDifferentValuesSeen(b) = NonEmptyCells(b)
            /\ (b.Allocation > 0 /\ NonEmptyCells(b) >= 1) =>
                    \E c \in 0..30 : /\ IsCeilingOfLog2(c, NonEmptyCells(b))
                                     /\ BitsWasted(b) = b.Allocation - c
            /\ b.Allocation = 0 => BitsWasted(b) = 0
            /\ (a.NumEl >= 1 /\ b.Allocation > 0) => NonEmptyCells(b) >= 1
    /\ WastedBytesAndRollup

\* The analysis of the tensor without elements is held: each population is
\* empty and BitsWasted() of the sign is 1 - int32(ceil(-Inf)), wrapped.
C24_EmptyTensorWaste ==
    ~(\E a \in HeldAnalyses \ {NoAnalysis} :
        /\ a.NumEl = 0
        /\ NonEmptyCells(a.Sign) = 0
        /\ BitsWasted(a.Sign) = -2147483647)

-----------------------------------------------------------------------------
(***************************************************************************)
(* The archives of the input files.                                        *)
(***************************************************************************)
\* The files whose archive is open: opened and not yet closed.
OpenArchives == {f \in DOMAIN archives : archives[f].opened > archives[f].closed}

\* The workers inside processSafetensorsFile on file f, past a successful Open.
Holders(f) == {w \in DOMAIN workers : workers[w].f = f /\ workers[w].pc = "wait"}

\* C25: every archive a worker opened is closed exactly once, on every path
\* out of processSafetensorsFile (success, tensor error, cancellation seen
\* right after the open), and only after every tensor goroutine of that
\* file has returned: an archive is open exactly while one worker is inside
\* processSafetensorsFile on it, a tensor goroutine that has not returned
\* finds the archive of its file open, no archive is opened or closed twice,
\* a worker holds at most one open archive, and none is open once the
\* worker has left the file or the driver has returned.
C25_ArchiveClosedOnce ==
    /\ \A f \in DOMAIN archives :
        /\ archives[f].opened \in {0, 1}
        /\ archives[f].closed \in {0, archives[f].opened}
        /\ f \in OpenArchives <=> Holders(f) # {}
        /\ Cardinality(Holders(f)) <= 1
    /\ \A x \in GoroutinesAt(Unfinished) : workers[x[1]].f \in OpenArchives
    /\ Cardinality(OpenArchives) <= Len(workers)
    /\ \A w \in DOMAIN workers :
            workers[w].pc \in {"print", "returned"} /\ workers[w].f > 0 =>
                workers[w].f \notin OpenArchives
    /\ drv.pc = "returned" => OpenArchives = {}

\* A worker saw the cancellation right after opening a file with tensors to
\* analyse: it started no tensor goroutine and the archive is closed; the
\* driver has returned.
C25_Witness ==
    /\ drv.pc = "returned"
    /\ \E w \in DOMAIN workers :
        /\ workers[w].err = Canceled
        /\ workers[w].f > 0
        /\ archives[workers[w].f] = [opened |-> 1, closed |-> 1]
        /\ workers[w].g = <<>>
        /\ ToAnalyze(run.files[workers[w].f]) # <<>>
    /\ \E f \in DOMAIN archives : archives[f].opened = 0

-----------------------------------------------------------------------------
(***************************************************************************)
(* cmdAnalyze without errors and without cancellation, every goroutine     *)
(* that can run being scheduled eventually (the Go scheduler leaves no     *)
(* runnable goroutine waiting forever).                                    *)
(***************************************************************************)
\* Files that open and hold supported tensors only.
SoundFiles == {f \in DriverFiles : f.opens /\ ~FileFails(f)}

RECURSIVE SoundFileSeqs(_)
SoundFileSeqs(n) ==
    IF n = 0 THEN {<<>>}
    ELSE LET shorter == SoundFileSeqs(n - 1)
         IN  shorter \cup {Append(q, f) : q \in {x \in shorter : Len(x) = n - 1},
                                          f \in SoundFiles}

\* Three tensors for the two CPU slots of a machine of one CPU, then a
\* second file for its queue of one place.
ThreeTensorRun ==
    [numCPU |-> 1, totalMemory |-> GiB(8, 0),
     files |-> <<[opens |-> TRUE, tensors |-> <<GoodTensor, GoodTensor, GoodTensor>>],
                 [opens |-> TRUE, tensors |-> <<GoodTensor>>]>>,
     out |-> TRUE, writable |-> TRUE, setup |-> "ok", cancels |-> TRUE]

\* Three files for two file workers and a queue of two places.
TwoWorkerRun ==
    [numCPU |-> 3, totalMemory |-> GiB(16, 0),
     files |-> <<[opens |-> TRUE, tensors |-> <<SkippedTensor, GoodTensor>>],
                 [opens |-> TRUE, tensors |-> <<GoodTensor>>],
                 [opens |-> TRUE, tensors |-> <<SkippedTensor>>]>>,
     out |-> TRUE, writable |-> TRUE, setup |-> "ok", cancels |-> TRUE]

\* A file of two tensors and a file of one for two file workers, whose three
\* tensor goroutines share the two CPU slots of a machine of one CPU.
SharedSlotsRun ==
    [numCPU |-> 1, totalMemory |-> GiB(16, 0),
     files |-> <<[opens |-> TRUE, tensors |-> <<GoodTensor, GoodTensor>>],
                 [opens |-> TRUE, tensors |-> <<GoodTensor>>]>>,
     out |-> TRUE, writable |-> TRUE, setup |-> "ok", cancels |-> FALSE]

\* Every list of sound files on the machine of one file worker, and the
\* three runs above.
FairRuns ==
    {[numCPU |-> 1, totalMemory |-> GiB(8, 0), files |-> fs, out |-> FALSE,
      writable |-> TRUE, setup |-> "ok", cancels |-> TRUE] :
        fs \in SoundFileSeqs(MaxFiles)}
        \cup {ThreeTensorRun, TwoWorkerRun, SharedSlotsRun}

FairInit ==
    /\ run \in FairRuns
    /\ drv = [DrvIdle EXCEPT !.pc = "start"]
    /\ workers = <<>>
    /\ output = OutputIdle
    /\ archives = <<>>
    /\ codec = CodecIdle
    /\ setobj = "none"
    /\ cs = CountSetZero
    /\ bs = BitSetZero
    /\ js = JsIdle
    /\ got = GotIdle
    /\ hist = HistInit
    /\ aborted = FALSE
    /\ tensor = TensorIdle
    /\ analysis = AnalysisIdle
    /\ bitkind = BitKindIdle

\* The goroutines: cmdAnalyze itself, the feeder, file worker w and the
\* goroutine of tensor j of the file of worker w.
DriverProcess == DriverStart \/ DriverWait \/ DriverRollup

FeederProcess == FeederSend \/ FeederClose

WorkerProcess(w) ==
    /\ w \in DOMAIN workers
    /\ \/ WorkerRecv(w)
       \/ WorkerCheck(w)
       \/ WorkerOpen(w)
       \/ WorkerWait(w)
       \/ WorkerPrint(w)
       \/ WorkerMerge(w)

TensorProcess(w, j) ==
    /\ w \in DOMAIN workers
    /\ j \in DOMAIN workers[w].g
    /\ \/ TensorAcquire(w, j)
       \/ TensorCheck(w, j)
       \/ TensorAnalyze(w, j)
       \/ TensorRelease(w, j)
       \/ TensorReturn(w, j)

WorkerIds == UNION {1..FilePar(r.totalMemory) : r \in FairRuns}

TensorIds == UNION {UNION {1..Len(r.files[f].tensors) : f \in DOMAIN r.files} : r \in FairRuns}

FairNext ==
    \/ DriverProcess
    \/ FeederProcess
    \/ \E w \in WorkerIds :
        \/ WorkerProcess(w)
        \/ \E j \in TensorIds : TensorProcess(w, j)

\* Some goroutine that can take a step takes one.  Every goroutine-wise
\* fairness of the scheduler implies this condition.
Fairness == WF_vars(FairNext)

SpecFair == FairInit /\ [][FairNext]_vars /\ Fairness

\* Two file workers contend for the CPU slots: the two goroutines of one
\* worker hold both slots while the goroutine of the other worker waits
\* for one.
SlotContention ==
    /\ run = SharedSlotsRun
    /\ drv.cpuLimit = drv.cpus
    /\ \E x \in GoroutinesAt(Slotted), y \in GoroutinesAt({"acquire"}) : x[1] # y[1]

\* C26: without errors and cancellation, under fair scheduling, the driver
\* eventually returns nil with the rollup printed, every file having been
\* taken, the queue closed and drained, no tensor goroutine left waiting for
\* a CPU slot and no slot held; at every instant no file has been taken
\* twice, the queue is closed only after the last file was sent, a worker
\* has returned only once the queue was closed and drained, and the rollup
\* is computed only after every worker has returned; and a run in which two
\* workers contend for the CPU slots goes on to return nil with every slot
\* released.
C26_EventuallyReturns ==
    /\ <>(/\ drv.pc = "returned" /\ drv.result = ""
          /\ output.rollup # <<>>
          /\ {output.processing[k] : k \in DOMAIN output.processing} = DOMAIN run.files
          /\ drv.closed /\ drv.loadPipe = <<>>
          /\ GoroutinesAt(Unfinished) = {}
          /\ drv.cpuLimit = 0)
    /\ [](/\ Cardinality({output.processing[k] : k \in DOMAIN output.processing}) = Len(output.processing)
          /\ drv.closed => drv.fed = Len(run.files)
          /\ \A w \in DOMAIN workers :
                workers[w].pc = "returned" => drv.closed /\ drv.loadPipe = <<>> /\ workers[w].err = ""
          /\ drv.pc \in {"rollup", "returned"} => \A w \in DOMAIN workers : workers[w].pc = "returned")
    /\ (SlotContention ~> (drv.pc = "returned" /\ drv.result = "" /\ drv.cpuLimit = 0))

\* The run of two file workers sharing two CPU slots has returned, both
\* files processed and the three analyses merged.
C26_Witness ==
    /\ run = SharedSlotsRun
    /\ drv.pc = "returned" /\ drv.result = ""
    /\ drv.cpus = 2 /\ drv.p = 2
    /\ Len(output.processing) = 2
    /\ Len(drv.all) = 3

-----------------------------------------------------------------------------
(***************************************************************************)
(* Errors and the cancellation polls of the tensor goroutines.             *)
(***************************************************************************)
\* Some tensor analysis has returned an error of its own.
AnalysisFailed ==
    \E x \in GoroutinesAt({"release", "return", "done"}) :
        workers[x[1]].err2[x[2]] \notin {"", Canceled}

\* The goroutine of tensor j of worker w passes its cancellation poll and
\* goes on to its sweep.
PassesPoll(w, j) ==
    /\ w \in DOMAIN workers /\ w \in DOMAIN workers'
    /\ j \in DOMAIN workers[w].g /\ j \in DOMAIN workers'[w].g
    /\ workers[w].g[j] = "check"
    /\ workers'[w].g[j] = "analyze"

\* C27 as stated: once one tensor analysis of a file has returned an error,
\* no tensor goroutine of that file or of another file passes its
\* cancellation poll any more: each observes the cancellation there and
\* returns without running its sweep.
C27_ErrorStopsPolls ==
    [][AnalysisFailed => \A w \in DOMAIN workers : \A j \in DOMAIN workers[w].g : ~PassesPoll(w, j)]_vars

-----------------------------------------------------------------------------
(***************************************************************************)
(* n_bits: one BitKindCount or BitKindBool with its unexported cache       *)
(* (initialized, effective, actuallyUsed, wasted), read through its        *)
(* methods while its exported population set goes on being filled.         *)
(***************************************************************************)
MaxKindAdds == 2

KindAllocations == {0, 1, 2}

\* &BitKindCount{Allocation: alloc, ValuesSeen: seen} and its BitKindBool
\* twin, as AnalyzeTensor builds them: the set resized to 1 << alloc, or
\* left empty for a zero allocation; the cache fields have their zero value.
NewBitKind(kind, alloc) ==
    [kind |-> kind, Allocation |-> alloc,
     ValuesSeen |-> IF kind = "BitKindBool"
                    THEN BitSetResize(BitSetZero, IF alloc = 0 THEN 0 ELSE Pow2(alloc)).v
                    ELSE CountSetResize(CountSetZero, IF alloc = 0 THEN 0 ELSE Pow2(alloc)).v,
     initialized |-> FALSE, effective |-> 0, actuallyUsed |-> Float64OfInt(0), wasted |-> 0]

\* Mutant of cache: the derived values are computed at every call.
cache_Recompute(b) ==
    LET d == BitKindCache(b)
    IN  [b EXCEPT !.effective = d.effective, !.actuallyUsed = d.actuallyUsed,
                  !.wasted = d.wasted, !.initialized = TRUE]

\* func (b *BitKindCount) cache(), func (b *BitKindBool) cache()
cache(b) ==
    IF ~b.initialized
    THEN LET d == BitKindCache(b)
         IN  [b EXCEPT !.effective = d.effective, !.actuallyUsed = d.actuallyUsed,
                       !.wasted = d.wasted, !.initialized = TRUE]
    ELSE b

KindReaders == {"NumberDifferentValuesSeen", "BitsActuallyUsed", "BitsWasted"}

\* What the reading method m returns on b once cache() has run.
KindField(b, m) ==
    CASE m = "NumberDifferentValuesSeen" -> b.effective
      [] m = "BitsActuallyUsed" -> b.actuallyUsed
      [] m = "BitsWasted" -> b.wasted

\* json.Marshal of a BitKind: its exported fields under their tags.
BitKindPersisted(b) == [alloc |-> b.Allocation, seen |-> b.ValuesSeen]

KindInit ==
    /\ \E kind \in {"BitKindCount", "BitKindBool"}, alloc \in KindAllocations :
            bitkind = [BitKindIdle EXCEPT !.obj = NewBitKind(kind, alloc)]
    /\ run = RunIdle
    /\ drv = DrvIdle
    /\ workers = <<>>
    /\ output = OutputIdle
    /\ archives = <<>>
    /\ codec = CodecIdle
    /\ setobj = "none"
    /\ cs = CountSetZero
    /\ bs = BitSetZero
    /\ js = JsIdle
    /\ got = GotIdle
    /\ hist = HistInit
    /\ aborted = FALSE
    /\ tensor = TensorIdle
    /\ analysis = AnalysisIdle

NotKind == <<DriverVars, codec, setobj, cs, bs, js, got, hist, aborted, tensor, analysis>>

\* b.ValuesSeen.Add(i) or b.ValuesSeen.Set(i), by the owner of the BitKind.
KindAdd ==
    /\ bitkind.adds < MaxKindAdds
    /\ \E i \in 0..(Pow2(bitkind.obj.Allocation) - 1) :
        /\ bitkind.obj.Allocation # 0
        /\ bitkind' = [bitkind EXCEPT
                          !.obj.ValuesSeen = IF bitkind.obj.kind = "BitKindBool"
                                             THEN BitSetSet(@, i).v
                                             ELSE CountSetAdd(@, i).v,
                          !.adds = @ + 1,
                          !.last = "Add"]
    /\ UNCHANGED NotKind

\* NumberDifferentValuesSeen(), BitsActuallyUsed(), BitsWasted():
\* b.cache(); return the field.
KindRead ==
    /\ \E m \in KindReaders :
        LET b == cache(bitkind.obj)
        IN  bitkind' = [bitkind EXCEPT
                           !.obj = b,
                           !.first = IF bitkind.obj.initialized THEN @
                                     ELSE <<[effective |-> b.effective,
                                             actuallyUsed |-> b.actuallyUsed,
                                             wasted |-> b.wasted]>>,
                           !.got = <<[method |-> m, value |-> KindField(b, m)]>>,
                           !.last = "Read"]
    /\ UNCHANGED NotKind

\* GetAllocation(): return b.Allocation
KindGetAllocation ==
    /\ bitkind' = [bitkind EXCEPT
                      !.got = <<[method |-> "GetAllocation", value |-> GetAllocation(bitkind.obj)]>>,
                      !.last = "GetAllocation"]
    /\ UNCHANGED NotKind

\* json.Marshal(b)
KindMarshal ==
    /\ bitkind' = [bitkind EXCEPT !.json = <<BitKindPersisted(bitkind.obj)>>, !.last = "Marshal"]
    /\ UNCHANGED NotKind

KindNext == KindAdd \/ KindRead \/ KindGetAllocation \/ KindMarshal

SpecBitKind == KindInit /\ [][KindNext]_vars

\* C28: the derived values of a BitKind are computed at the first read of
\* any of the three and kept: the first read computes them from the
\* population set as it is then; every later read leaves the cache as it is
\* and returns the value computed at the first read, also when the
\* population set has changed since; no read changes the allocation or the
\* population set; the persisted form holds the allocation and the
\* population set and nothing of the cache.
C28_CachedAtFirstRead ==
    /\ [](/\ bitkind.obj.initialized <=> bitkind.first # <<>>
          /\ bitkind.obj.initialized =>
                /\ bitkind.obj.effective = bitkind.first[1].effective
                /\ bitkind.obj.actuallyUsed = bitkind.first[1].actuallyUsed
                /\ bitkind.obj.wasted = bitkind.first[1].wasted
          /\ (bitkind.got # <<>> /\ bitkind.got[1].method \in KindReaders) =>
                bitkind.got[1].value =
                    (CASE bitkind.got[1].method = "NumberDifferentValuesSeen" -> bitkind.first[1].effective
                       [] bitkind.got[1].method = "BitsActuallyUsed" -> bitkind.first[1].actuallyUsed
                       [] bitkind.got[1].method = "BitsWasted" -> bitkind.first[1].wasted)
          /\ bitkind.json # <<>> =>
                /\ DOMAIN bitkind.json[1] = {"alloc", "seen"}
                /\ bitkind.json[1].alloc = bitkind.obj.Allocation)
    /\ [][/\ bitkind'.last \in {"Read", "GetAllocation", "Marshal"} =>
                /\ bitkind'.obj.Allocation = bitkind.obj.Allocation
                /\ bitkind'.obj.ValuesSeen = bitkind.obj.ValuesSeen
          /\ (bitkind'.last = "Read" /\ ~bitkind.obj.initialized) =>
                /\ bitkind'.obj.effective = NonEmptyCells(bitkind.obj)
                /\ bitkind'.first = <<[effective |-> NonEmptyCells(bitkind.obj),
                                       actuallyUsed |-> bitkind'.obj.actuallyUsed,
                                       wasted |-> bitkind'.obj.wasted]>>
          /\ bitkind.obj.initialized =>
                /\ bitkind'.obj.initialized
                /\ bitkind'.first = bitkind.first
          /\ bitkind'.last = "Marshal" =>
                bitkind'.json = <<[alloc |-> bitkind.obj.Allocation, seen |-> bitkind.obj.ValuesSeen]>>]_vars

\* A read after the population set has grown since the first read: the
\* value returned is the one of the first read, not the present population.
C28_Witness ==
    /\ bitkind.last = "Read"
    /\ bitkind.got # <<>>
    /\ bitkind.got[1].method = "NumberDifferentValuesSeen"
    /\ bitkind.got[1].value = 1
    /\ NonEmptyCells(bitkind.obj) = 2
    /\ bitkind.json # <<>>

-----------------------------------------------------------------------------------------------------------------------------------------------------
(***************************************************************************)
(* UnmarshalJSON of BitSet and of CountSet on JSON texts of any origin,    *)
(* on the receiver itself: js holds the text, bs or cs the receiver, got   *)
(* what the call returned.  A CountSet is also marshalled first.           *)
(***************************************************************************)
MaxChars == 14

\* 'A', 'B', 'Q' and '/' of the base64 alphabet, and '!' outside of it.
PayloadChars == {65, 66, 81, 47, 33}

\* The strings of n characters whose characters after the second are all
\* the character fill.
Payloads(n) ==
    IF n = 0 THEN {<<>>}
    ELSE IF n = 1 THEN {<<c>> : c \in PayloadChars}
    ELSE {<<c1, c2>> \o [j \in 1..(n - 2) |-> fill] :
            c1 \in PayloadChars, c2 \in PayloadChars, fill \in {65, 47}}

\* n line feeds, each written as the escape \n.
LineFeeds(n) == <<>> \o [j \in 1..(2 * n) |-> IF j % 2 = 1 THEN JSONBackslash ELSE 110]

\* Texts with escapes or white space: "BQ", "A\nQ" and "AQ\r\nID"
\* with their escapes, a surrogate pair, "\q", "BQ" and "AQID" between
\* spaces, the texts null, 5 and the empty text, a string left open, and
\* "AAA" and "AQIDBAUG" followed by line feeds that widen the buffer the
\* decoder allocates (to 9 and 10 bytes, and to 8 bytes: one short).
EscapedTexts ==
    {<<34, 92, 117, 48, 48, 52, 50, 81, 34>>,
     <<34, 65, 92, 110, 81, 34>>,
     <<34, 65, 81, 92, 114, 92, 110, 73, 68, 34>>,
     <<34, 92, 117, 100, 56, 51, 100, 92, 117, 100, 101, 48, 48, 34>>,
     <<34, 92, 113, 34>>,
     <<32, 34, 66, 81, 34, 10>>,
     <<9, 34, 65, 81, 73, 68, 34, 32>>,
     JSONNull,
     <<53>>,
     <<>>,
     <<JSONQuote, 65>>,
     JSONMarshalString(<<65, 65, 65>> \o LineFeeds(9)),
     JSONMarshalString(<<65, 81, 73, 68, 66, 65, 85, 71>> \o LineFeeds(6)),
     JSONMarshalString(<<65, 65, 65>> \o LineFeeds(8))}

\* JSON strings of up to MaxChars characters, and the texts above.
JSONTexts ==
    {JSONMarshalString(p) : p \in UNION {Payloads(n) : n \in 0..MaxChars}}
        \cup EscapedTexts

\* The receivers: the zero value and a set of three bits with bit 1 set;
\* the zero value and the counters 1, 2, 3.
Receivers == {BitSetZero, BitSetSet(BitSetResize(BitSetZero, 3).v, 1).v}

CountReceivers == {CountSetZero, [Counts |-> <<1, 2, 3>>]}

UnmarshalInit ==
    /\ \/ /\ setobj = "BitSet"
          /\ cs = CountSetZero
          /\ bs \in Receivers
          /\ \E data \in JSONTexts : js = [ok |-> TRUE, str |-> data]
       \/ /\ setobj = "CountSet"
          /\ cs \in CountReceivers
          /\ bs = BitSetZero
          /\ \/ js = JsIdle
             \/ \E data \in JSONTexts : js = [ok |-> TRUE, str |-> data]
    /\ got = GotIdle
    /\ hist = HistInit
    /\ aborted = FALSE
    /\ codec = CodecIdle
    /\ tensor = TensorIdle
    /\ analysis = AnalysisIdle
    /\ DriverIdle

\* err := b.UnmarshalJSON(data) on the receiver b itself.
BitSetUnmarshalInto ==
    /\ setobj = "BitSet" /\ ~aborted /\ js.ok /\ ~got.ok
    /\ LET r == BitSetUnmarshalJSON(bs, js.str)
       IN  /\ got' = [ok |-> TRUE, err |-> r.err, panic |-> r.panic, v |-> r.v]
           /\ bs' = r.v
           /\ aborted' = r.panic
    /\ UNCHANGED <<DriverVars, bitkind, codec, setobj, cs, js, hist, tensor, analysis>>

\* data, err := c.MarshalJSON()
CountSetMarshalStep ==
    /\ setobj = "CountSet" /\ ~js.ok
    /\ js' = [ok |-> TRUE, str |-> CountSetMarshalJSON(cs)]
    /\ UNCHANGED <<DriverVars, bitkind, codec, setobj, cs, bs, got, hist, aborted, tensor, analysis>>

\* err := c.UnmarshalJSON(data) on the receiver c itself.
CountSetUnmarshalInto ==
    /\ setobj = "CountSet" /\ js.ok /\ ~got.ok
    /\ LET r == CountSetUnmarshalJSON(cs, js.str)
       IN  /\ got' = [ok |-> TRUE, err |-> r.err, panic |-> FALSE, v |-> r.v]
           /\ cs' = r.v
    /\ UNCHANGED <<DriverVars, bitkind, codec, setobj, bs, js, hist, aborted, tensor, analysis>>

UnmarshalNext == BitSetUnmarshalInto \/ CountSetMarshalStep \/ CountSetUnmarshalInto

SpecUnmarshal == UnmarshalInit /\ [][UnmarshalNext]_vars

\* C29: for every JSON string, UnmarshalJSON of a BitSet does not abort,
\* and either returns an error and leaves the receiver as it was, or leaves
\* a well-formed set: Len = 0 and no words for the empty string, otherwise
\* Len >= 1 and as many words as ceil(Len / 64); Len is never negative.
C29_UnmarshalWellFormed ==
    [][(setobj = "BitSet" /\ got'.ok /\ ~got.ok) =>
            /\ ~got'.panic
            /\ ~aborted'
            /\ bs'.Len >= 0
            /\ got'.err => bs' = bs
            /\ ~got'.err =>
                  IF JSONUnmarshalString(js.str).str = <<>>
                  THEN bs'.Len = 0 /\ bs'.Bits.n = 0
                  ELSE /\ bs'.Len >= 1
                       /\ bs'.Bits.n = (bs'.Len + 63) \div 64]_vars

\* The same for the texts whose string decodes to 9 bytes or to 17 and so
\* on (a length byte and whole 64 bit words), to nothing, or not at all.
C29_WholeWordsWellFormed ==
    [][(setobj = "BitSet" /\ got'.ok /\ ~got.ok
        /\ LET dec == Base64Decode(JSONUnmarshalString(js.str).str)
           IN  dec.err \/ Len(dec.d) = 0 \/ (Len(dec.d) >= 9 /\ Len(dec.d) % 8 = 1)) =>
            /\ ~got'.panic
            /\ bs'.Len >= 0
            /\ got'.err => bs' = bs
            /\ ~got'.err =>
                  IF JSONUnmarshalString(js.str).str = <<>>
                  THEN bs'.Len = 0 /\ bs'.Bits.n = 0
                  ELSE /\ bs'.Len >= 1
                       /\ bs'.Bits.n = (bs'.Len + 63) \div 64]_vars

\* "BQ" decodes to the one byte 5: no error, Len = 5 - 64.
C29_NegativeLen == ~(got.ok /\ ~got.err /\ ~got.panic /\ bs.Len < 0)

\* A string that decodes to 2 bytes in a buffer of 2: the first word is
\* sliced past the capacity.
C29_NoAbort == ~(got.ok /\ got.panic)

\* The counters marshalled and unmarshalled into the same CountSet are the
\* counters it had: 1, 2, 3 go through "AQID".
CountSetRoundTrip ==
    [][(setobj = "CountSet" /\ got'.ok /\ ~got.ok /\ js.str = CountSetMarshalJSON(cs)) =>
            /\ ~got'.err
            /\ cs' = cs
            /\ cs.Counts = <<1, 2, 3>> => js.str = <<34, 65, 81, 73, 68, 34>>]_vars

-----
(***************************************************************************)
(* cmdAnalyze on more files than the queue and the file workers hold: a    *)
(* machine of one CPU and 8 GiB (a queue of one place, one file worker)    *)
(* and three files.                                                        *)
(***************************************************************************)
\* The first file holds a rejected tensor, or does not open, or all three
\* files are sound; the run of one tensor without elements, whose document
\* cannot be marshalled; and the runs that end before any file is known.
QueueRuns ==
    {[numCPU |-> 1, totalMemory |-> GiB(8, 0), files |-> fs, out |-> FALSE,
      writable |-> TRUE, setup |-> "ok", cancels |-> TRUE] :
        fs \in {<<[opens |-> TRUE, tensors |-> <<BadTensor>>],
                  [opens |-> TRUE, tensors |-> <<GoodTensor>>],
                  [opens |-> TRUE, tensors |-> <<GoodTensor>>]>>,
                <<[opens |-> FALSE, tensors |-> <<>>],
                  [opens |-> TRUE, tensors |-> <<SkippedTensor, GoodTensor>>],
                  [opens |-> TRUE, tensors |-> <<GoodTensor>>]>>,
                <<[opens |-> TRUE, tensors |-> <<GoodTensor>>],
                  [opens |-> TRUE, tensors |-> <<SkippedTensor, GoodTensor>>],
                  [opens |-> TRUE, tensors |-> <<GoodTensor>>]>>}}
        \cup {EmptyTensorRun} \cup SetupRuns

QueueInit ==
    /\ run \in QueueRuns
    /\ drv = [DrvIdle EXCEPT !.pc = "start"]
    /\ workers = <<>>
    /\ output = OutputIdle
    /\ archives = <<>>
    /\ codec = CodecIdle
    /\ setobj = "none"
    /\ cs = CountSetZero
    /\ bs = BitSetZero
    /\ js = JsIdle
    /\ got = GotIdle
    /\ hist = HistInit
    /\ aborted = FALSE
    /\ tensor = TensorIdle
    /\ analysis = AnalysisIdle
    /\ bitkind = BitKindIdle

SpecQueue == QueueInit /\ [][DriverNext]_vars

\* The feeder goroutine has finished: it has closed the queue, which is its
\* last statement; or it was never started.
FeederTerminated == drv.closed \/ run.setup # "ok"

\* The feeder is inside loadPipe <- f with the queue full and no file worker
\* left to receive from it.
FeederBlocked ==
    /\ drv.pc # "start"
    /\ drv.fed < Len(run.files)
    /\ Len(drv.loadPipe) = drv.p
    /\ \A w \in DOMAIN workers : workers[w].pc = "returned"

\* C30: when cmdAnalyze has returned, every goroutine it started has
\* terminated: the feeder, the file workers and the tensor goroutines, also
\* after a worker's error or a cancellation with more files left than the
\* queue holds; the feeder is never left blocked on a send.
C30_GoroutinesTerminated ==
    /\ drv.pc = "returned" =>
            /\ FeederTerminated
            /\ \A w \in DOMAIN workers : workers[w].pc = "returned"
            /\ GoroutinesAt(Unfinished) = {}
    /\ ~FeederBlocked

\* The same without the feeder after an error or a cancellation: the file
\* workers and the tensor goroutines have terminated at the return, and so
\* has the feeder when no file worker returned an error.
C30_WorkersTerminated ==
    drv.pc = "returned" =>
        /\ \A w \in DOMAIN workers : workers[w].pc = "returned"
        /\ GoroutinesAt(Unfinished) = {}
        /\ drv.result \in {"", UnsupportedValue, WriteError} =>
                FeederTerminated /\ drv.loadPipe = <<>>

\* The driver has returned the error of the first file while the feeder
\* holds the third file for a queue that nobody reads.
C30_FeederLeftBlocked ==
    ~(/\ drv.pc = "returned"
      /\ drv.result # ""
      /\ FeederBlocked
      /\ drv.fed = 2
      /\ Len(run.files) = 3)

=============================================================================
